---------------------------- MODULE Spec2Model ----------------------------
(***************************************************************************)
(* Food-log highlighting and nutrition totals of obsidian-macro-tracking.  *)
(*                                                                         *)
(* Texts are sequences of one-character strings.  Offsets keep the         *)
(* JavaScript convention (0-based, end exclusive); the character at        *)
(* offset k of s is s[k + 1].                                              *)
(***************************************************************************)
EXTENDS Integers, Sequences, FiniteSets, TLC

VARIABLES
    doc,          \* editor: the document text (view.state.doc)
    vpFrom,       \* editor: start of the visible range
    vpTo,         \* editor: end of the visible range
    secLines,     \* editor: extractLinesUnderHeading of the visible text
    hlRanges,     \* editor: extractMultilineHighlightRanges of the visible text
    showCalorieHints, \* editor: the showCalorieHints field of the extension
    annotations,  \* editor: extractInlineCalorieAnnotations of the visible text
    content,      \* totals: the content of the note (params.content)
    store,        \* totals: what getNutritionData does for each file name
    goals,        \* totals: params.goals, a nutrient record, or NoGoals
    calcResult,   \* totals: what calculateNutritionTotals returned, or threw
    readErrors,   \* totals: the calls of onReadError, in order
    tree,         \* reading view: the nodes of the rendered element
    settings,     \* reading view: what the name `settings` stands for
    nutrientCache,\* the nutrient cache: what it answers for each file name
    pc,           \* reading view: where process is, and what it has yet to do
    passText,     \* reading view: reconstructedText of the container at hand
    treeBefore,   \* reading view: the tree when process was last called
    passes,       \* reading view: calls of process since the render
    stable,       \* reading view: calls of process since the settings changed
    raised,       \* reading view: whether the last call of process threw
    vault,        \* the vault: what each file holds
    nutrientDataCache, \* NutrientCache: file path or food key -> cached entry
    nameToPathMap,\* NutrientCache: nutrient name -> file path or food key
    inFlight,     \* asynchronous calls that are awaiting their file read
    started,      \* asynchronous calls started so far
    lastStarted,  \* what the most recently started call read, once it has
    shown         \* what the listeners, or the reader of the total, last saw

editorVars == <<doc, vpFrom, vpTo, secLines, hlRanges, showCalorieHints, annotations>>

calcVars == <<content, store, goals, calcResult, readErrors>>

treeVars == <<tree, settings, nutrientCache, pc, passText, treeBefore, passes, stable, raised>>

asyncVars == <<vault, nutrientDataCache, nameToPathMap, inFlight, started, lastStarted, shown>>

vars == <<editorVars, calcVars, treeVars, asyncVars>>

\* The parts of the plugin a specification leaves out hold nothing.
NoEditor ==
    /\ doc = <<>>
    /\ vpFrom = 0
    /\ vpTo = 0
    /\ secLines = <<>>
    /\ hlRanges = <<>>
    /\ showCalorieHints = FALSE
    /\ annotations = <<>>

NoCalc ==
    /\ content = <<>>
    /\ store = <<>>
    /\ goals = <<>>
    /\ calcResult = <<>>
    /\ readErrors = <<>>

NoTree ==
    /\ tree = <<>>
    /\ settings = <<>>
    /\ nutrientCache = <<>>
    /\ pc = <<>>
    /\ passText = <<>>
    /\ treeBefore = <<>>
    /\ passes = 0
    /\ stable = 0
    /\ raised = FALSE

NoAsync ==
    /\ vault = <<>>
    /\ nutrientDataCache = <<>>
    /\ nameToPathMap = <<>>
    /\ inFlight = <<>>
    /\ started = 0
    /\ lastStarted = <<>>
    /\ shown = <<>>

(***************************************************************************)
(* Bounds of the model.                                                    *)
(***************************************************************************)
MaxLines == 3

(***************************************************************************)
(* Characters and strings.                                                 *)
(***************************************************************************)
NL == "\n"

Digits == {"0", "1", "2", "3", "4", "5", "6", "7", "8", "9"}

\* JavaScript's \s, restricted to the characters a text of the model can hold.
WhiteSpace == {" ", "\t", "\n", "\r", "\f"}

\* Characters the regular expression `.` does not match.
LineTerminators == {"\n", "\r"}

UpperLetters ==
    <<"A", "B", "C", "D", "E", "F", "G", "H", "I", "J", "K", "L", "M",
      "N", "O", "P", "Q", "R", "S", "T", "U", "V", "W", "X", "Y", "Z">>

LowerLetters ==
    <<"a", "b", "c", "d", "e", "f", "g", "h", "i", "j", "k", "l", "m",
      "n", "o", "p", "q", "r", "s", "t", "u", "v", "w", "x", "y", "z">>

UpperSet == {UpperLetters[i] : i \in 1..26}

LowerSet == {LowerLetters[i] : i \in 1..26}

LowerChar(c) ==
    IF c \in UpperSet
    THEN LowerLetters[CHOOSE i \in 1..26 : UpperLetters[i] = c]
    ELSE c

UpperChar(c) ==
    IF c \in LowerSet
    THEN UpperLetters[CHOOSE i \in 1..26 : LowerLetters[i] = c]
    ELSE c

\* String.prototype.toLowerCase / toUpperCase
toLowerCase(s) == [i \in 1..Len(s) |-> LowerChar(s[i])]

toUpperCase(s) == [i \in 1..Len(s) |-> UpperChar(s[i])]

\* String.prototype.substring(a, b)
Substring(s, a, b) == SubSeq(s, a + 1, b)

Range(s) == {s[i] : i \in 1..Len(s)}

Min(a, b) == IF a < b THEN a ELSE b

Max(a, b) == IF a > b THEN a ELSE b

\* String.prototype.trim
trim(s) ==
    LET keep == {i \in 1..Len(s) : s[i] \notin WhiteSpace}
    IN  IF keep = {} THEN <<>>
        ELSE SubSeq(s, CHOOSE i \in keep : \A j \in keep : i <= j,
                       CHOOSE i \in keep : \A j \in keep : i >= j)

\* String.prototype.indexOf: the first offset at which needle occurs, or -1.
IndexOf(hay, needle) ==
    LET at == {k \in 0..(Len(hay) - Len(needle)) :
                  Substring(hay, k, k + Len(needle)) = needle}
    IN  IF at = {} THEN -1 ELSE CHOOSE k \in at : \A j \in at : k <= j

\* String.prototype.split("\n")
RECURSIVE SplitLines(_)
SplitLines(s) ==
    LET nls == {i \in 1..Len(s) : s[i] = NL}
    IN  IF nls = {} THEN <<s>>
        ELSE LET i == CHOOSE i \in nls : \A j \in nls : i <= j
             IN  <<SubSeq(s, 1, i - 1)>> \o SplitLines(SubSeq(s, i + 1, Len(s)))

\* Array.prototype.join("\n")
RECURSIVE JoinLines(_)
JoinLines(ls) ==
    IF Len(ls) = 0 THEN <<>>
    ELSE IF Len(ls) = 1 THEN ls[1]
    ELSE ls[1] \o <<NL>> \o JoinLines(Tail(ls))

\* The offset after the longest run of characters of class cls from offset p.
RECURSIVE RunEnd(_, _, _)
RunEnd(s, p, cls) ==
    IF p < Len(s) /\ s[p + 1] \in cls THEN RunEnd(s, p + 1, cls) ELSE p

\* Whether word occurs at offset p of s, letter case ignored (the i flag).
WordAt(s, p, word) ==
    /\ p + Len(word) <= Len(s)
    /\ \A i \in 1..Len(word) : LowerChar(s[p + i]) = LowerChar(word[i])

\* An alternation (a|b|...) at offset p: the end of the first alternative, in
\* the order written, that matches; -1 when none does.
RECURSIVE AltEnd(_, _, _)
AltEnd(s, p, alts) ==
    IF Len(alts) = 0 THEN -1
    ELSE IF WordAt(s, p, alts[1]) THEN p + Len(alts[1])
    ELSE AltEnd(s, p, Tail(alts))

\* \d+(?:\.\d+)? at offset p, greedy: the end of the number, -1 when no digit
\* is at p.  A shorter alternative of the backtracking matcher never lets the
\* rest of the patterns below match (what would follow is a digit or a dot).
NumberEnd(s, p) ==
    LET d1 == RunEnd(s, p, Digits)
    IN  IF d1 = p THEN -1
        ELSE IF d1 < Len(s) /\ s[d1 + 1] = "." /\ RunEnd(s, d1 + 1, Digits) > d1 + 1
        THEN RunEnd(s, d1 + 1, Digits)
        ELSE d1

(***************************************************************************)
(* FoodHighlightCore: the section extractor.                               *)
(***************************************************************************)
MaxHeadingLevel == 6

\* line.match(/^(#{1,6})\s*(.*)$/): the match is a record of the level (the
\* length of group 1) and group 2, or the record with level 0 for null.
HeadingMatch(line) ==
    LET hashes == Min(RunEnd(line, 0, {"#"}), MaxHeadingLevel)
        titleAt == RunEnd(line, hashes, WhiteSpace)
        title == Substring(line, titleAt, Len(line))
    IN  IF hashes >= 1 /\ \A i \in 1..Len(title) : title[i] \notin LineTerminators
        THEN [level |-> hashes, title |-> title]
        ELSE [level |-> 0, title |-> <<>>]

FoodLog == <<"F", "o", "o", "d", " ", "L", "o", "g">>

\* A title comparison that minds the letter case.
TitleEqualsExactCase(heading, headingText) == heading = headingText

\* heading.toLowerCase() === headingText.toLowerCase()
TitleEquals(heading, headingText) ==
    toLowerCase(heading) = toLowerCase(headingText)

\* The opening heading left out of the offsets.
OffsetHeadingNotCounted(offset, line) == offset

\* offset += line.length + 1, for the opening heading line
OffsetAfterHeading(offset, line) == offset + Len(line) + 1

\* The loop of extractLinesUnderHeading from line i on.
RECURSIVE LinesLoop(_, _, _, _, _, _)
LinesLoop(lines, headingText, i, inSection, offset, result) ==
    IF i > Len(lines) THEN result
    ELSE
        LET line == lines[i]
            headingMatch == HeadingMatch(line)
            level == headingMatch.level
            heading == trim(headingMatch.title)
        IN  IF /\ level >= 1
               /\ level = 2
               /\ TitleEquals(heading, headingText)
            THEN LinesLoop(lines, headingText, i + 1, TRUE,
                           OffsetAfterHeading(offset, line), result)
            ELSE IF level >= 1 /\ inSection /\ level <= 2
            THEN result
            ELSE LinesLoop(lines, headingText, i + 1, inSection,
                           offset + Len(line) + 1,
                           IF inSection
                           THEN Append(result, [line |-> line, offset |-> offset])
                           ELSE result)

extractLinesUnderHeading(text, headingText) ==
    LinesLoop(SplitLines(text), headingText, 1, FALSE, 0, <<>>)

(***************************************************************************)
(* FoodHighlightCore: highlight ranges.                                    *)
(***************************************************************************)
UnitAlternatives ==
    << <<"k", "g">>, <<"l", "b">>, <<"c", "u", "p", "s">>, <<"c", "u", "p">>,
       <<"t", "b", "s", "p">>, <<"t", "s", "p">>, <<"m", "l">>, <<"o", "z">>,
       <<"g">>, <<"l">>, <<"p", "c", "s">>, <<"p", "c">> >>

TagAlternatives ==
    << <<"k", "c", "a", "l">>, <<"f", "a", "t">>,
       <<"s", "a", "t", "f", "a", "t">>, <<"p", "r", "o", "t">>,
       <<"c", "a", "r", "b", "s">>, <<"s", "u", "g", "a", "r">>,
       <<"f", "i", "b", "e", "r">>, <<"s", "o", "d", "i", "u", "m">> >>

NoMatch == [index |-> -1]

\* /\[\[([^\]]+)\]\]\s+(\d+(?:\.\d+)?)(kg|lb|cups?|tbsp|tsp|ml|oz|g|l|pcs?)/i
\* tried at offset p only.
LinkedAt(s, p) ==
    LET refEnd == RunEnd(s, p + 2, (Range(s) \cup {"["}) \ {"]"})
        wsEnd == RunEnd(s, refEnd + 2, WhiteSpace)
        numEnd == NumberEnd(s, wsEnd)
        unitEnd == IF numEnd < 0 THEN -1 ELSE AltEnd(s, numEnd, UnitAlternatives)
    IN  IF /\ WordAt(s, p, <<"[", "[">>)
           /\ refEnd > p + 2
           /\ WordAt(s, refEnd, <<"]", "]">>)
           /\ wsEnd > refEnd + 2
           /\ unitEnd >= 0
        THEN [index |-> p, end |-> unitEnd,
              all |-> Substring(s, p, unitEnd),
              g1 |-> Substring(s, p + 2, refEnd),
              g2 |-> Substring(s, wsEnd, numEnd),
              g3 |-> Substring(s, numEnd, unitEnd)]
        ELSE NoMatch

\* The leftmost match of the linked pattern at or after offset from (exec with
\* the g flag and lastIndex = from).
LinkedFrom(s, from) ==
    LET search[p \in from..(Len(s) + 1)] ==
            IF p > Len(s) THEN NoMatch
            ELSE LET here == LinkedAt(s, p)
                 IN  IF here # NoMatch THEN here ELSE search[p + 1]
    IN  IF from > Len(s) THEN NoMatch ELSE search[from]

\* /(-?\d+(?:\.\d+)?)\s*(kcal|fat|satfat|prot|carbs|sugar|fiber|sodium)/i
\* tried at offset p only.
NutritionValueAt(s, p) ==
    LET numAt == IF WordAt(s, p, <<"-">>) THEN p + 1 ELSE p
        numEnd == NumberEnd(s, numAt)
        wsEnd == IF numEnd < 0 THEN -1 ELSE RunEnd(s, numEnd, WhiteSpace)
        tagEnd == IF numEnd < 0 THEN -1 ELSE AltEnd(s, wsEnd, TagAlternatives)
    IN  IF tagEnd >= 0
        THEN [index |-> p, end |-> tagEnd,
              all |-> Substring(s, p, tagEnd),
              g1 |-> Substring(s, p, numEnd),
              g2 |-> Substring(s, wsEnd, tagEnd)]
        ELSE NoMatch

NutritionValueFrom(s, from) ==
    LET at == {p \in from..Len(s) : NutritionValueAt(s, p) # NoMatch}
    IN  IF at = {} THEN NoMatch
        ELSE NutritionValueAt(s, CHOOSE p \in at : \A q \in at : p <= q)

\* All matches of the linked pattern, left to right (the g flag).
RECURSIVE LinkedMatches(_, _)
LinkedMatches(s, from) ==
    LET m == LinkedFrom(s, from)
    IN  IF m = NoMatch THEN <<>> ELSE <<m>> \o LinkedMatches(s, m.end)

\* All matches of the nutrition value pattern, left to right (matchAll).
RECURSIVE NutritionMatches(_, _)
NutritionMatches(s, from) ==
    LET m == NutritionValueFrom(s, from)
    IN  IF m = NoMatch THEN <<>> ELSE <<m>> \o NutritionMatches(s, m.end)

\* The end of the amount range of one linked match (amountEnd).
AmountEnd(amountStart, linkedMatch) ==
    amountStart + Len(linkedMatch.g2) + Len(linkedMatch.g3) + 1

\* The first while loop of extractFoodHighlightRanges, from lastIndex on.
RECURSIVE AmountRanges(_, _, _)
AmountRanges(text, lineStart, lastIndex) ==
    LET linkedMatch == LinkedFrom(text, lastIndex)
    IN  IF linkedMatch = NoMatch THEN <<>>
        ELSE LET amountStart == lineStart + linkedMatch.index
                                  + IndexOf(linkedMatch.all, linkedMatch.g2)
                 amountEnd == AmountEnd(amountStart, linkedMatch)
             IN  <<[start |-> amountStart, end |-> amountEnd, type |-> "amount"]>>
                 \o AmountRanges(text, lineStart, linkedMatch.end)

\* The second while loop of extractFoodHighlightRanges, from lastIndex on.
RECURSIVE NutritionRanges(_, _, _)
NutritionRanges(text, lineStart, lastIndex) ==
    LET inlineMatch == NutritionValueFrom(text, lastIndex)
    IN  IF inlineMatch = NoMatch THEN <<>>
        ELSE LET valueStart == lineStart + inlineMatch.index
                 valueEnd == valueStart + Len(inlineMatch.all)
             IN  <<[start |-> valueStart, end |-> valueEnd, type |-> "nutrition"]>>
                 \o NutritionRanges(text, lineStart, inlineMatch.end)

extractFoodHighlightRanges(text, lineStart) ==
    AmountRanges(text, lineStart, 0) \o NutritionRanges(text, lineStart, 0)

\* The for loop of extractMultilineHighlightRanges from entry i on.
RECURSIVE MultilineLoop(_, _, _)
MultilineLoop(linesByOffset, startOffset, i) ==
    IF i > Len(linesByOffset) THEN <<>>
    ELSE extractFoodHighlightRanges(linesByOffset[i].line,
                                    startOffset + linesByOffset[i].offset)
         \o MultilineLoop(linesByOffset, startOffset, i + 1)

extractMultilineHighlightRanges(text, startOffset) ==
    MultilineLoop(extractLinesUnderHeading(text, FoodLog), startOffset, 1)

(***************************************************************************)
(* FoodHighlightExtension: the editor plugin.  The document is edited a    *)
(* line at a time; every transaction ends with update(), which rebuilds    *)
(* the decorations of the visible range.                                   *)
(***************************************************************************)
\* The lines a document of the model is made of.
LineCatalog ==
    { <<"#", "#", " ", "F", "o", "o", "d", " ", "L", "o", "g">>,
      <<"#", "#", "f", "O", "O", "D", " ", "l", "o", "g", " ">>,
      <<"#", " ", "A">>,
      <<"#", "#", " ", "B">>,
      <<"#", "#", "#", " ", "c">>,
      <<"[", "[", "x", "]", "]", " ", "5", "g">>,
      <<"[", "[", "5", "k", "c", "a", "l", "]", "]", " ", "5", "g">>,
      <<"[", "[", "x", "]", "]", " ", "1", ".", "5", "K", "g", "7", "f", "a", "t">>,
      <<"a", " ", "-", "7", "k", "c", "a", "l", " ", "2", " ", "F", "a", "t">> }

\* view.state.doc.sliceString(from, to)
sliceString(from, to) == Substring(doc, from, to)

\* Offsets at which a line of text s starts, and at which one ends.
LineStarts(s) == {0} \cup {i : i \in {j \in 1..Len(s) : s[j] = NL}}


(***************************************************************************)
(* Properties of the section extractor and of the highlight ranges, under  *)
(* SpecEditor.                                                             *)
(***************************************************************************)
visibleText == sliceString(vpFrom, vpTo)

visibleLines == SplitLines(visibleText)

\* The offset in s at which line k of s starts.
LineOffset(ls, k) ==
    LET len[i \in 0..Len(ls)] == IF i = 0 THEN 0 ELSE len[i - 1] + Len(ls[i]) + 1
    IN  len[k - 1]

\* A line that is a level-2 heading titled as the target, by the letter of
\* the section's definition: two hashes, then the title, blanks aside.
IsTargetHeadingLine(line) ==
    /\ RunEnd(line, 0, {"#"}) = 2
    /\ toLowerCase(trim(Substring(line, 2, Len(line)))) = toLowerCase(FoodLog)

\* A line that is a heading of level 1 or 2.
IsTopHeadingLine(line) == RunEnd(line, 0, {"#"}) \in {1, 2}

\* The line that opens the section (0: none), and the first heading line of
\* level 1 or 2 after it (the number of lines plus one: none).
OpeningLine(ls) ==
    LET at == {k \in 1..Len(ls) : IsTargetHeadingLine(ls[k])}
    IN  IF at = {} THEN 0 ELSE CHOOSE k \in at : \A j \in at : k <= j

ClosingLine(ls) ==
    LET at == {k \in (OpeningLine(ls) + 1)..Len(ls) : IsTopHeadingLine(ls[k])}
    IN  IF at = {} THEN Len(ls) + 1 ELSE CHOOSE k \in at : \A j \in at : k <= j

\* C3: once the section has opened, no line at or after the next heading of
\* level 1 or 2 is emitted, whatever the title of that heading, and every
\* line between the opening heading and that heading is emitted (the lines
\* under headings of level 3 to 6 among them).
C3_SectionCloses ==
    LET ls == visibleLines
        open == OpeningLine(ls)
        close == ClosingLine(ls)
    IN  open > 0 =>
            /\ \A i \in 1..Len(secLines) :
                   secLines[i].offset < LineOffset(ls, close)
            /\ \A k \in (open + 1)..(close - 1) :
                   \E i \in 1..Len(secLines) :
                       /\ secLines[i].offset = LineOffset(ls, k)
                       /\ secLines[i].line = ls[k]

\* C4: every emitted {line, offset} is exact (the text holds line at offset),
\* the offsets increase strictly, each is the start of a line of the text,
\* and each lies after the whole opening heading line and its newline.
C4_OffsetsExact ==
    LET ls == visibleLines
        open == OpeningLine(ls)
    IN  \A i \in 1..Len(secLines) :
            LET e == secLines[i]
            IN  /\ e.offset + Len(e.line) <= Len(visibleText)
                /\ Substring(visibleText, e.offset, e.offset + Len(e.line)) = e.line
                /\ e.offset \in LineStarts(visibleText)
                /\ e.offset + Len(e.line) \in
                       {Len(visibleText)} \cup {j - 1 : j \in {n \in 1..Len(visibleText) : visibleText[n] = NL}}
                /\ i > 1 => secLines[i - 1].offset < e.offset
                /\ open > 0
                /\ e.offset >= LineOffset(ls, open) + Len(ls[open]) + 1

\* A state where C4 has something to say: two lines with text are emitted
\* after the heading.
C4_Witness ==
    /\ Len(secLines) >= 2
    /\ secLines[1].line # <<>>
    /\ secLines[2].line # <<>>

\* The text with the title of every target heading line in upper case, and in
\* lower case.
RecaseHeadings(text, upper) ==
    JoinLines([k \in 1..Len(SplitLines(text)) |->
        LET line == SplitLines(text)[k]
        IN  IF IsTargetHeadingLine(line)
            THEN IF upper THEN toUpperCase(line) ELSE toLowerCase(line)
            ELSE line])

\* C6: two texts that differ only in the letter case of the title of the
\* target headings yield the same lines, offsets and highlight ranges.
C6_HeadingCaseInsensitive ==
    \A upper \in BOOLEAN :
        LET other == RecaseHeadings(visibleText, upper)
        IN  /\ extractLinesUnderHeading(other, FoodLog) = secLines
            /\ extractMultilineHighlightRanges(other, vpFrom) = hlRanges

\* A state where C6 has something to say: a heading whose title is neither
\* all upper nor all lower case opens a section with a highlighted line.
C6_Witness ==
    /\ RecaseHeadings(visibleText, TRUE) # visibleText
    /\ RecaseHeadings(visibleText, FALSE) # visibleText
    /\ secLines # <<>>
    /\ hlRanges # <<>>

Disjoint(r1, r2) == r1.end <= r2.start \/ r2.end <= r1.start

\* C7: on every line of the section, any two distinct ranges that
\* extractFoodHighlightRanges returns cover disjoint character intervals.
C7_RangesDisjoint ==
    \A i \in 1..Len(secLines) :
        LET rs == extractFoodHighlightRanges(secLines[i].line, 0)
        IN  \A a, b \in 1..Len(rs) : a # b => Disjoint(rs[a], rs[b])

\* The amount ranges, and the nutrition ranges, of a sequence of ranges.
OfType(rs, type) == SelectSeq(rs, LAMBDA r : r.type = type)

\* C8: the amount range of a linked match covers exactly its number and unit:
\* it starts at the first digit of the quantity after the closing brackets and
\* ends right after the unit; a nutrition range covers exactly one value+tag
\* token.
C8_AmountExtent ==
    \A i \in 1..Len(secLines) :
        LET line == secLines[i].line
            rs == extractFoodHighlightRanges(line, 0)
            lm == LinkedMatches(line, 0)
            nm == NutritionMatches(line, 0)
        IN  /\ OfType(rs, "amount") =
                   [k \in 1..Len(lm) |->
                       [start |-> lm[k].end - Len(lm[k].g3) - Len(lm[k].g2),
                        end |-> lm[k].end, type |-> "amount"]]
            /\ OfType(rs, "nutrition") =
                   [k \in 1..Len(nm) |->
                       [start |-> nm[k].index, end |-> nm[k].end,
                        type |-> "nutrition"]]

\* C9: every range of extractMultilineHighlightRanges(text, startOffset)
\* starts inside a line the section extractor emitted and ends no later than
\* the end of that line.
C9_RangesInsideSection ==
    \A a \in 1..Len(hlRanges) :
        \E i \in 1..Len(secLines) :
            LET lineStart == vpFrom + secLines[i].offset
                lineEnd == lineStart + Len(secLines[i].line)
            IN  /\ lineStart <= hlRanges[a].start
                /\ hlRanges[a].start < lineEnd
                /\ hlRanges[a].end <= lineEnd

(***************************************************************************)
(* NutritionCalculator.  Numbers are held in hundredths (1.5 is 150), so   *)
(* that the sums and products of the values of the model are exact.        *)
(***************************************************************************)
DigitValue(c) == CHOOSE n \in 0..9 : <<"0", "1", "2", "3", "4", "5", "6", "7", "8", "9">>[n + 1] = c

\* The value of a run of digits.
RECURSIVE DigitsValue(_)
DigitsValue(s) ==
    IF Len(s) = 0 THEN 0
    ELSE 10 * DigitsValue(SubSeq(s, 1, Len(s) - 1)) + DigitValue(s[Len(s)])

\* parseFloat of -?\d+(?:\.\d+)?, in hundredths.
parseFloat(s) ==
    LET neg == Len(s) > 0 /\ s[1] = "-"
        body == IF neg THEN Tail(s) ELSE s
        dot == IndexOf(body, <<".">>)
        whole == IF dot < 0 THEN body ELSE Substring(body, 0, dot)
        frac == IF dot < 0 THEN <<>> ELSE Substring(body, dot + 1, Len(body))
        frac2 == SubSeq(frac \o <<"0", "0">>, 1, 2)
        v == 100 * DigitsValue(whole) + DigitsValue(frac2)
    IN  IF neg THEN 0 - v ELSE v

\* The product of two numbers held in hundredths.
Times(a, b) == (a * b) \div 100

\* The extractor of NutritionCalculator: the lines alone.
RECURSIVE CalcLinesLoop(_, _, _, _, _)
CalcLinesLoop(lines, headingText, i, inSection, result) ==
    IF i > Len(lines) THEN result
    ELSE
        LET line == lines[i]
            headingMatch == HeadingMatch(line)
            level == headingMatch.level
            text == trim(headingMatch.title)
        IN  IF /\ level >= 1
               /\ level = 2
               /\ toLowerCase(text) = toLowerCase(headingText)
            THEN CalcLinesLoop(lines, headingText, i + 1, TRUE, result)
            ELSE IF level >= 1 /\ inSection /\ level <= 2
            THEN result
            ELSE CalcLinesLoop(lines, headingText, i + 1, inSection,
                               IF inSection THEN Append(result, line) ELSE result)

\* The extractor with inSection set from the first line on.
calcExtractLinesFromTop(text, headingText) ==
    CalcLinesLoop(SplitLines(text), headingText, 1, TRUE, <<>>)

calcExtractLinesUnderHeading(text, headingText) ==
    CalcLinesLoop(SplitLines(text), headingText, 1, FALSE, <<>>)

\* A variant of parseFoodEntriesFromLines that takes every linked match of each
\* line (the pattern with the g flag).
RECURSIVE parseEveryFoodEntryFromLines(_)
parseEveryFoodEntryFromLines(lines) ==
    IF Len(lines) = 0 THEN <<>>
    ELSE [j \in 1..Len(LinkedMatches(lines[1], 0)) |->
             [filename |-> LinkedMatches(lines[1], 0)[j].g1,
              amount |-> parseFloat(LinkedMatches(lines[1], 0)[j].g2),
              unit |-> toLowerCase(LinkedMatches(lines[1], 0)[j].g3)]]
         \o parseEveryFoodEntryFromLines(Tail(lines))

\* parseFoodEntriesFromLines: the first linked match of each line.
RECURSIVE parseFoodEntriesFromLines(_)
parseFoodEntriesFromLines(lines) ==
    IF Len(lines) = 0 THEN <<>>
    ELSE LET match == LinkedFrom(lines[1], 0)
         IN  (IF match = NoMatch THEN <<>>
              ELSE <<[filename |-> match.g1,
                      amount |-> parseFloat(match.g2),
                      unit |-> toLowerCase(match.g3)]>>)
             \o parseFoodEntriesFromLines(Tail(lines))

\* -?\d+(?:\.\d+)?(?:kcal|fat|satfat|prot|carbs|sugar|fiber|sodium) at p: its
\* end, or -1.
TokenEnd(s, p) ==
    LET numAt == IF WordAt(s, p, <<"-">>) THEN p + 1 ELSE p
        numEnd == NumberEnd(s, numAt)
    IN  IF numEnd < 0 THEN -1 ELSE AltEnd(s, numEnd, TagAlternatives)

\* (?:\s+TOKEN)* from offset e on, greedy: its end.
RECURSIVE TokensEnd(_, _)
TokensEnd(s, e) ==
    LET wsEnd == RunEnd(s, e, WhiteSpace)
        next == IF wsEnd > e THEN TokenEnd(s, wsEnd) ELSE -1
    IN  IF next < 0 THEN e ELSE TokensEnd(s, next)

\* inlineRegex of parseInlineNutrientEntriesFromLines, tried at offset p only:
\* (?!\[\[)([^\s][^\n]*?)\s+(TOKEN(?:\s+TOKEN)*), group 1 as short as can be.
InlineEntryAt(s, p) ==
    LET ends == {m \in (p + 1)..Len(s) :
                    /\ \A j \in (p + 2)..m : s[j] # NL
                    /\ RunEnd(s, m, WhiteSpace) > m
                    /\ TokenEnd(s, RunEnd(s, m, WhiteSpace)) >= 0}
        m1 == CHOOSE m \in ends : \A j \in ends : m <= j
        tokAt == RunEnd(s, m1, WhiteSpace)
    IN  IF /\ p < Len(s)
           /\ ~WordAt(s, p, <<"[", "[">>)
           /\ s[p + 1] \notin WhiteSpace
           /\ ends # {}
        THEN [index |-> p,
              g1 |-> Substring(s, p, m1),
              g2 |-> Substring(s, tokAt, TokensEnd(s, TokenEnd(s, tokAt)))]
        ELSE NoMatch

\* inlineRegex.exec(line): the leftmost match.
InlineEntryExec(s) ==
    LET from[p \in 0..(Len(s) + 1)] ==
            IF p > Len(s) THEN NoMatch
            ELSE LET here == InlineEntryAt(s, p)
                 IN  IF here # NoMatch THEN here ELSE from[p + 1]
    IN  from[0]

nutrientKeyMap ==
    [kcal |-> "calories", fat |-> "fats", satfat |-> "saturated_fats",
     prot |-> "protein", carbs |-> "carbs", sugar |-> "sugar",
     fiber |-> "fiber", sodium |-> "sodium"]

\* The nutrient tag of a matched tag text, as a key of nutrientKeyMap.
TagName(unit) ==
    CHOOSE k \in DOMAIN nutrientKeyMap :
        \E i \in 1..Len(TagAlternatives) :
            /\ TagAlternatives[i] = unit
            /\ k = <<"kcal", "fat", "satfat", "prot", "carbs", "sugar", "fiber", "sodium">>[i]

\* A nutrient record is a function from some keys to numbers; EmptyData is {}.
EmptyData == [k \in {} |-> 0]

\* target[key] = (target[key] ?? 0) + value
AddTo(target, key, value) ==
    [k \in DOMAIN target \cup {key} |->
        IF k = key
        THEN (IF key \in DOMAIN target THEN target[key] ELSE 0) + value
        ELSE target[k]]

\* parseNutrientString: the loop over the matches from the i-th on.
RECURSIVE NutrientStringLoop(_, _, _)
NutrientStringLoop(matches, i, nutrientData) ==
    IF i > Len(matches) THEN nutrientData
    ELSE LET value == parseFloat(matches[i].g1)
             unit == toLowerCase(matches[i].g2)
             key == nutrientKeyMap[TagName(unit)]
         IN  NutrientStringLoop(matches, i + 1, AddTo(nutrientData, key, value))

parseNutrientString(nutrientString) ==
    NutrientStringLoop(NutritionMatches(nutrientString, 0), 1, EmptyData)

\* if (Object.keys(nutrientData).length > 0) entries.push(nutrientData)
PushIfAnyKey(nutrientData) ==
    IF DOMAIN nutrientData # {} THEN <<nutrientData>> ELSE <<>>

\* The body of the loop of parseInlineNutrientEntriesFromLines, for the match
\* of one line.
InlineEntriesOfMatch(foodMatch) ==
    IF foodMatch = NoMatch THEN <<>>
    ELSE PushIfAnyKey(parseNutrientString(foodMatch.g2))

RECURSIVE parseInlineNutrientEntriesFromLines(_)
parseInlineNutrientEntriesFromLines(lines) ==
    IF Len(lines) = 0 THEN <<>>
    ELSE InlineEntriesOfMatch(InlineEntryExec(lines[1]))
             \o parseInlineNutrientEntriesFromLines(Tail(lines))

\* getUnitMultiplier of ./constants, for the units whose factor the
\* specification fixes: grams or millilitres per unit, over 100; a piece
\* counts servingSize (1 when absent) grams.
UnitFactor(unit) ==
    CASE unit = <<"g">> -> 1
      [] unit = <<"m", "l">> -> 1
      [] unit = <<"k", "g">> -> 1000
      [] unit = <<"l">> -> 1000

IsPieceUnit(unit) == unit \in {<<"p", "c">>, <<"p", "c", "s">>}

\* servingSize is <<>> for undefined and <<n>> for the number n.
getUnitMultiplier(amount, unit, servingSize) ==
    IF IsPieceUnit(unit)
    THEN Times(amount, IF servingSize # <<>> THEN servingSize[1] ELSE 100) \div 100
    ELSE (amount * UnitFactor(unit)) \div 100

\* nutrients.serving_size
ServingSizeOf(nutrients) ==
    IF "serving_size" \in DOMAIN nutrients THEN <<nutrients["serving_size"]>> ELSE <<>>

\* addNutrients(target, source, multiplier) over the keys from the i-th on,
\* the keys taken in the order keys.
RECURSIVE AddNutrientsLoop(_, _, _, _)
AddNutrientsLoop(target, source, multiplier, keys) ==
    IF keys = {} THEN target
    ELSE LET key == CHOOSE k \in keys : TRUE
         IN  AddNutrientsLoop(AddTo(target, key, Times(source[key], multiplier)),
                              source, multiplier, keys \ {key})

\* A variant of addNutrients that adds the values of the source unscaled.
addNutrientsUnscaled(target, source, multiplier) ==
    AddNutrientsLoop(target, source, 100, DOMAIN source)

addNutrients(target, source, multiplier) ==
    AddNutrientsLoop(target, source, multiplier, DOMAIN source)

RECURSIVE calculateInlineTotals(_)
calculateInlineTotals(entries) ==
    IF Len(entries) = 0 THEN EmptyData
    ELSE addNutrients(calculateInlineTotals(SubSeq(entries, 1, Len(entries) - 1)),
                      entries[Len(entries)], 100)

filterValidWorkoutEntries(entries) ==
    LET valid(entry) ==
            /\ \E k \in DOMAIN entry : entry[k] > 0
            /\ ("calories" \notin DOMAIN entry \/ entry["calories"] >= 0)
    IN  SelectSeq(entries, valid)

combineNutrients(nutrients1, nutrients2) == addNutrients(nutrients1, nutrients2, 100)

\* A variant of clampNutrientsToZero that copies the values as they are.
clampNothing(nutrients) == nutrients

clampNutrientsToZero(nutrients) ==
    [key \in DOMAIN nutrients |-> Max(0, nutrients[key])]

\* A variant of RoundPercent that drops the fraction (Math.floor).
FloorPercent(num, den) == (100 * num) \div den

\* Math.round(num / den * 100) for den > 0, as a whole number.
RoundPercent(num, den) == (200 * num + den) \div (2 * den)

NutrientKeys ==
    {"calories", "fats", "saturated_fats", "protein", "carbs", "fiber", "sugar", "sodium"}

\* A variant of calculateGoalProgress that makes an entry for every key
\* consumed, with 0 for a goal that is absent.
GoalProgressOfConsumed(consumed, goalValues) ==
    [key \in NutrientKeys \cap DOMAIN consumed |->
        LET goal == IF key \in DOMAIN goalValues THEN goalValues[key] ELSE 0
            remaining == goal - consumed[key]
        IN  [remaining |-> remaining,
             percentConsumed |->
                 IF goal > 0 THEN RoundPercent(consumed[key], goal) ELSE 0,
             percentRemaining |->
                 IF goal > 0 THEN Max(0, RoundPercent(remaining, goal)) ELSE 0]]

calculateGoalProgress(consumed, goalValues) ==
    [key \in NutrientKeys \cap DOMAIN goalValues |->
        LET goal == goalValues[key]
            consumedValue == IF key \in DOMAIN consumed THEN consumed[key] ELSE 0
            remaining == goal - consumedValue
        IN  [remaining |-> remaining,
             percentConsumed |->
                 IF goal > 0 THEN RoundPercent(consumedValue, goal) ELSE 0,
             percentRemaining |->
                 IF goal > 0 THEN Max(0, RoundPercent(remaining, goal)) ELSE 0]]

\* What a call getNutritionData(filename) does: it returns a record, returns
\* null, or throws an error.
Returns(data) == [kind |-> "data", data |-> data, error |-> ""]

ReturnsNull == [kind |-> "null", data |-> EmptyData, error |-> ""]

Throws(error) == [kind |-> "throws", data |-> EmptyData, error |-> error]

getNutritionData(lookup, filename) ==
    IF filename \in DOMAIN lookup THEN lookup[filename] ELSE ReturnsNull

\* The try without its catch: the error of the lookup leaves the loop.
LookupUncaught(filename, outcome) ==
    [nutrients |-> outcome, reported |-> <<>>, raised |-> outcome.kind = "throws"]

\* try { nutrients = getNutritionData(..) } catch (error) { handleReadError(..) }
\* of calculateTotals: the nutrients left in the variable (null after a catch),
\* the calls of handleReadError, and whether an error leaves the block.
LookupCaught(filename, outcome) ==
    IF outcome.kind = "throws"
    THEN [nutrients |-> ReturnsNull,
          reported |-> <<[filename |-> filename, error |-> outcome.error]>>,
          raised |-> FALSE]
    ELSE [nutrients |-> outcome, reported |-> <<>>, raised |-> FALSE]

\* The name calculateTotals hands to the lookup for an entry.
LookupKey(entry) == entry.filename

\* calculateTotals from the i-th entry on: the totals, the calls of
\* handleReadError so far, and whether an error ended the loop.
RECURSIVE TotalsLoop(_, _, _, _, _)
TotalsLoop(entries, lookup, i, totals, reported) ==
    IF i > Len(entries)
    THEN [totals |-> totals, reported |-> reported, raised |-> FALSE]
    ELSE
        LET entry == entries[i]
            try == LookupCaught(entry.filename, getNutritionData(lookup, LookupKey(entry)))
            nutrients == try.nutrients
        IN  IF try.raised
            THEN [totals |-> totals, reported |-> reported \o try.reported, raised |-> TRUE]
            ELSE TotalsLoop(entries, lookup, i + 1,
                    IF nutrients.kind = "data"
                    THEN addNutrients(totals, nutrients.data,
                            getUnitMultiplier(entry.amount, entry.unit,
                                              ServingSizeOf(nutrients.data)))
                    ELSE totals,
                    reported \o try.reported)

calculateTotals(entries, lookup) == TotalsLoop(entries, lookup, 1, EmptyData, <<>>)

\* A variant of the test below that also gives up when no entry is linked.
NothingLinked(foodEntries, inlineEntries, workoutEntries) ==
    Len(foodEntries) = 0

\* The test of the early return of calculateNutritionTotals.
NothingToTotal(foodEntries, inlineEntries, workoutEntries) ==
    Len(foodEntries) = 0 /\ Len(inlineEntries) = 0 /\ Len(workoutEntries) = 0

NoGoals == [kind |-> "undefined", data |-> EmptyData]

Goals(data) == [kind |-> "goals", data |-> data]

NoTotals ==
    [linkedTotals |-> EmptyData, inlineTotals |-> EmptyData,
     workoutTotals |-> EmptyData, combinedTotals |-> EmptyData,
     clampedTotals |-> EmptyData, goalProgress |-> NoGoals]

\* calculateNutritionTotals after its early return: from the totals of the
\* linked entries (with the calls of handleReadError) and of the inline ones.
TotalsOfEntries(linked, inlineTotals0, workoutEntries, goalParam) ==
    LET linkedTotals == linked.totals
        validWorkoutEntries == filterValidWorkoutEntries(workoutEntries)
        workoutTotals ==
            IF Len(workoutEntries) > 0 /\ Len(validWorkoutEntries) > 0
            THEN calculateInlineTotals(validWorkoutEntries) ELSE EmptyData
        inlineTotals ==
            IF DOMAIN workoutTotals # {}
            THEN addNutrients(inlineTotals0, workoutTotals, -100) ELSE inlineTotals0
        combinedTotals == combineNutrients(linkedTotals, inlineTotals)
        clampedTotals == clampNutrientsToZero(combinedTotals)
        goalProgress ==
            IF goalParam.kind = "goals"
            THEN Goals(calculateGoalProgress(clampedTotals, goalParam.data))
            ELSE NoGoals
    IN  IF linked.raised
        THEN [ends |-> "throws", value |-> NoTotals, reported |-> linked.reported]
        ELSE [ends |-> "value",
              value |-> [linkedTotals |-> linkedTotals, inlineTotals |-> inlineTotals,
                         workoutTotals |-> workoutTotals,
                         combinedTotals |-> combinedTotals,
                         clampedTotals |-> clampedTotals,
                         goalProgress |-> goalProgress],
              reported |-> linked.reported]

\* calculateNutritionTotals from the entries parsed: the early return, then
\* the totals.
TotalsOfParsed(foodEntries, inlineEntries, workoutEntries, lookup, goalParam) ==
    IF NothingToTotal(foodEntries, inlineEntries, workoutEntries)
    THEN [ends |-> "null", value |-> NoTotals, reported |-> <<>>]
    ELSE TotalsOfEntries(calculateTotals(foodEntries, lookup),
                         calculateInlineTotals(inlineEntries),
                         workoutEntries, goalParam)

\* A variant of TotalsOfLines that takes the inline entries of the section
\* as workout entries too.
TotalsOfLinesWithWorkouts(foodLogLines, lookup, goalParam) ==
    TotalsOfParsed(parseFoodEntriesFromLines(foodLogLines),
                   parseInlineNutrientEntriesFromLines(foodLogLines),
                   parseInlineNutrientEntriesFromLines(foodLogLines),
                   lookup, goalParam)

\* calculateNutritionTotals from the lines of the Food Log section.
TotalsOfLines(foodLogLines, lookup, goalParam) ==
    TotalsOfParsed(parseFoodEntriesFromLines(foodLogLines),
                   parseInlineNutrientEntriesFromLines(foodLogLines),
                   <<>>, lookup, goalParam)

\* calculateNutritionTotals(params): how the call ends ("null", "value" or
\* "throws"), the value returned, and the calls of onReadError it made.
calculateNutritionTotals(text, lookup, goalParam) ==
    TotalsOfLines(calcExtractLinesUnderHeading(text, FoodLog), lookup, goalParam)

(***************************************************************************)
(* The totals of a note: updateNutritionTotal recomputes them from the     *)
(* content of the note, the nutrient cache and the goals whenever one of   *)
(* them changes.                                                           *)
(***************************************************************************)
MaxCalcLines == 3

\* No inline entry of a line of the catalog holds more nutrient tokens than
\* this.
MaxTokens == 2

CalcLineCatalog ==
    { <<"#", "#", " ", "F", "o", "o", "d", " ", "L", "o", "g">>,
      <<"#", "#", " ", "B">>,
      <<"[", "[", "x", "]", "]", " ", "5", "g">>,
      <<"[", "[", "x", "]", "]", " ", "1", ".", "5", "k", "g", " ",
        "[", "[", "y", "]", "]", " ", "2", "p", "c">>,
      <<"[", "[", "p", "/", "x", "|", "a", "]", "]", " ", "5", "g">>,
      <<"[", "[", "y", "]", "]", " ", "2", "P", "C", " ", "3", "k", "c", "a", "l">>,
      <<"a", " ", "7", "k", "c", "a", "l", " ", "-", "2", "f", "a", "t", " ",
        "b", " ", "1", "f", "a", "t">> }

FileNames == {<<"x">>, <<"y">>}

\* What the cache can hold for a file: values per 100 g, in hundredths.
LookupOutcomes(f) ==
    IF f = <<"x">>
    THEN {ReturnsNull, Throws("Ex"),
          Returns([k \in {"calories", "fats"} |->
                      IF k = "calories" THEN 20000 ELSE 1000])}
    ELSE {Throws("Ey"),
          Returns([k \in {"calories", "serving_size", "carbs"} |->
                      IF k = "calories" THEN 5000
                      ELSE IF k = "serving_size" THEN 3000 ELSE 1000])}

GoalChoices ==
    {NoGoals, Goals([k \in {"calories", "protein", "fats"} |->
                        IF k = "calories" THEN 4000
                        ELSE IF k = "protein" THEN 0 ELSE -500])}

\* this.calculator... calculateNutritionTotals({content, getNutritionData,
\* onReadError, goals}) of updateNutritionTotal, onReadError recording its calls.
Recalculate(text, lookup, goalParam) ==
    \E r \in {calculateNutritionTotals(text, lookup, goalParam)} :
        /\ calcResult' = [ends |-> r.ends, value |-> r.value]
        /\ readErrors' = r.reported

CalcInit ==
    /\ content \in CalcLineCatalog
    /\ store = [f \in FileNames |-> IF f = <<"x">> THEN ReturnsNull ELSE Throws("Ey")]
    /\ goals = NoGoals
    /\ \E r \in {calculateNutritionTotals(content, store, goals)} :
           /\ calcResult = [ends |-> r.ends, value |-> r.value]
           /\ readErrors = r.reported
    /\ doc = <<>>
    /\ vpFrom = 0
    /\ vpTo = 0
    /\ secLines = <<>>
    /\ hlRanges = <<>>
    /\ showCalorieHints = FALSE
    /\ annotations = <<>>
    /\ tree = <<>>
    /\ settings = <<>>
    /\ nutrientCache = <<>>
    /\ pc = <<>>
    /\ passText = <<>>
    /\ treeBefore = <<>>
    /\ passes = 0
    /\ stable = 0
    /\ raised = FALSE
    /\ NoAsync

\* The note gains a line.
EditNote(l) ==
    /\ Len(SplitLines(content)) < MaxCalcLines
    /\ content' = content \o <<NL>> \o l
    /\ UNCHANGED <<store, goals>>
    /\ Recalculate(content', store, goals)
    /\ UNCHANGED <<editorVars, treeVars, asyncVars>>

\* The nutrient cache changes what it answers for one file.
CacheChange(f, outcome) ==
    /\ store[f] # outcome
    /\ store' = [store EXCEPT ![f] = outcome]
    /\ UNCHANGED <<content, goals>>
    /\ Recalculate(content, store', goals)
    /\ UNCHANGED <<editorVars, treeVars, asyncVars>>

\* The goals change.
GoalsChange(g) ==
    /\ goals # g
    /\ goals' = g
    /\ UNCHANGED <<content, store>>
    /\ Recalculate(content, store, goals')
    /\ UNCHANGED <<editorVars, treeVars, asyncVars>>

CalcNext ==
    \/ \E l \in CalcLineCatalog : EditNote(l)
    \/ \E f \in FileNames : \E outcome \in LookupOutcomes(f) : CacheChange(f, outcome)
    \/ \E g \in GoalChoices : GoalsChange(g)

SpecCalc == CalcInit /\ [][CalcNext]_vars

(***************************************************************************)
(* Claims on the totals.                                                   *)
(***************************************************************************)
\* The lines of the Food Log section of the note.
foodLogLines == calcExtractLinesUnderHeading(content, FoodLog)

\* The section holds a line with a linked match, or with an inline match.
LinkedRecognised == \E i \in 1..Len(foodLogLines) : LinkedFrom(foodLogLines[i], 0) # NoMatch

InlineRecognised == \E i \in 1..Len(foodLogLines) : InlineEntryExec(foodLogLines[i]) # NoMatch

\* C5: calculateNutritionTotals returns null exactly when the section yields
\* no linked entry and no inline entry, in particular when no line of the note
\* is a level-2 heading with the target title; with an entry recognised the
\* result is a value, whatever the lookups do.
C5_NullIffNoEntries ==
    /\ calcResult.ends = "null" <=> ~(LinkedRecognised \/ InlineRecognised)
    /\ (\A i \in 1..Len(SplitLines(content)) : ~IsTargetHeadingLine(SplitLines(content)[i]))
           => foodLogLines = <<>> /\ calcResult.ends = "null"
    /\ (LinkedRecognised \/ InlineRecognised) => calcResult.ends = "value"

\* C5: an entry is recognised, every lookup fails, and the value returned has
\* empty totals.
C5_Witness ==
    /\ LinkedRecognised
    /\ \A f \in FileNames : store[f].kind # "data"
    /\ calcResult.ends = "value"
    /\ calcResult.value.combinedTotals = EmptyData

\* The linked entries of the section and those whose lookup throws.
linkedEntries == parseFoodEntriesFromLines(foodLogLines)

LookupThrows(entry) == getNutritionData(store, entry.filename).kind = "throws"

LookupResolves(entry) == getNutritionData(store, entry.filename).kind = "data"

\* The sum of term[i] over the set S of indices.
RECURSIVE SumOver(_, _)
SumOver(S, term) ==
    IF S = {} THEN 0
    ELSE LET i == CHOOSE j \in S : TRUE
         IN  term[i] + SumOver(S \ {i}, term)

\* Among entries, those other than the throwing ones that define key k, and
\* what the i-th is due to add to it.
LinkedDefining(entries, k) ==
    {i \in 1..Len(entries) :
        /\ LookupResolves(entries[i])
        /\ k \in DOMAIN getNutritionData(store, entries[i].filename).data}

LinkedShare(entries, k, i) ==
    LET data == getNutritionData(store, entries[i].filename).data
    IN  Times(data[k], getUnitMultiplier(entries[i].amount, entries[i].unit,
                                         ServingSizeOf(data)))

\* The nutrient tokens of the inline match of each line, <<>> without a match.
InlineTokensOf(lines) ==
    [i \in 1..Len(lines) |->
        IF InlineEntryExec(lines[i]) = NoMatch THEN <<>>
        ELSE NutritionMatches(InlineEntryExec(lines[i]).g2, 0)]

\* The tokens with key k: pairs of a line and the place of a token in it.
InlineDefining(tokens, k) ==
    {t \in (1..Len(tokens)) \X (1..MaxTokens) :
        /\ t[2] <= Len(tokens[t[1]])
        /\ nutrientKeyMap[TagName(toLowerCase(tokens[t[1]][t[2]].g2))] = k}

\* C10: when the lookup throws for a linked entry, calculateNutritionTotals
\* does not throw, calls the error callback once per throwing entry with the
\* reference and the error, adds nothing for such an entry, and totals every
\* other linked entry and every inline entry.
C10_ThrowingLookupRecovered ==
    \A entries \in {linkedEntries} : \A tokens \in {InlineTokensOf(foodLogLines)} :
    (\E i \in 1..Len(entries) : LookupThrows(entries[i])) =>
        /\ calcResult.ends = "value"
        /\ readErrors =
               [i \in 1..Len(SelectSeq(entries, LookupThrows)) |->
                   LET entry == SelectSeq(entries, LookupThrows)[i]
                   IN  [filename |-> entry.filename,
                        error |-> getNutritionData(store, entry.filename).error]]
        /\ \A k \in NutrientKeys :
               /\ k \in DOMAIN calcResult.value.linkedTotals <=> LinkedDefining(entries, k) # {}
               /\ LinkedDefining(entries, k) # {} =>
                      calcResult.value.linkedTotals[k] =
                          SumOver(LinkedDefining(entries, k),
                                  [i \in LinkedDefining(entries, k) |-> LinkedShare(entries, k, i)])
               /\ k \in DOMAIN calcResult.value.inlineTotals <=> InlineDefining(tokens, k) # {}
               /\ InlineDefining(tokens, k) # {} =>
                      calcResult.value.inlineTotals[k] =
                          SumOver(InlineDefining(tokens, k),
                                  [t \in InlineDefining(tokens, k) |->
                                      parseFloat(tokens[t[1]][t[2]].g1)])

\* C10: one linked entry throws while another resolves and an inline entry is
\* totalled with it.
C10_Witness ==
    /\ \E i \in 1..Len(linkedEntries) : LookupThrows(linkedEntries[i])
    /\ \E i \in 1..Len(linkedEntries) : LookupResolves(linkedEntries[i])
    /\ InlineRecognised
    /\ Len(readErrors) = 1
    /\ calcResult.ends = "value"
    /\ "calories" \in DOMAIN calcResult.value.linkedTotals

\* C11: every linked entry whose lookup failed, by throwing or by resolving
\* to no data (null), is reported through the error callback with its
\* reference.
C11_FailedLookupReported ==
    \A entries \in {linkedEntries} :
        calcResult.ends = "value" =>
            \A i \in 1..Len(entries) :
                ~LookupResolves(entries[i]) =>
                    \E j \in 1..Len(readErrors) :
                        readErrors[j].filename = entries[i].filename

\* C13: for every nutrient key k, linkedTotals[k] is the sum, over the linked
\* entries whose lookup succeeded and defines k, of the multiplier of the
\* entry's quantity, unit and the lookup's serving size times the lookup's
\* value for k; k is absent when no resolved entry defines it.
C13_LinkedTotalsScaledSum ==
    \A entries \in {linkedEntries} :
        calcResult.ends = "value" =>
            \A k \in NutrientKeys : \A defining \in {LinkedDefining(entries, k)} :
                /\ k \in DOMAIN calcResult.value.linkedTotals <=> defining # {}
                /\ defining # {} =>
                       calcResult.value.linkedTotals[k] =
                           SumOver(defining, [i \in defining |-> LinkedShare(entries, k, i)])

\* C13: two linked entries resolve with different multipliers (grams, and
\* pieces of the looked-up serving size); both define calories, one alone
\* defines fats, none defines protein.
C13_Witness ==
    /\ calcResult.ends = "value"
    /\ Len(linkedEntries) = 2
    /\ linkedEntries[1].unit = <<"g">> /\ linkedEntries[2].unit = <<"p", "c">>
    /\ \A i \in 1..2 : LookupResolves(linkedEntries[i])
    /\ calcResult.value.linkedTotals["calories"] = 4000
    /\ "fats" \in DOMAIN calcResult.value.linkedTotals
    /\ "protein" \notin DOMAIN calcResult.value.linkedTotals

\* C14: each of linkedTotals, inlineTotals, combinedTotals and clampedTotals
\* of a result holds only keys of the nutrient-key set, whatever fields the
\* lookup results carry.
C14_TotalsOnlyNutrientKeys ==
    calcResult.ends = "value" =>
        /\ DOMAIN calcResult.value.linkedTotals \subseteq NutrientKeys
        /\ DOMAIN calcResult.value.inlineTotals \subseteq NutrientKeys
        /\ DOMAIN calcResult.value.combinedTotals \subseteq NutrientKeys
        /\ DOMAIN calcResult.value.clampedTotals \subseteq NutrientKeys

\* The inline entries of the section, and those that qualify as workout
\* entries.
inlineEntries == parseInlineNutrientEntriesFromLines(foodLogLines)

\* C15, as claimed: when some inline entry of the section qualifies as a
\* workout entry (a positive value, calories absent or not negative), the
\* totals of the qualifying entries are reported as workoutTotals and are
\* subtracted from inlineTotals.
C15_WorkoutSubtracted ==
    \A entries \in {inlineEntries} : \A valid \in {filterValidWorkoutEntries(entries)} :
        (calcResult.ends = "value" /\ Len(valid) > 0) =>
            /\ calcResult.value.workoutTotals = calculateInlineTotals(valid)
            /\ calcResult.value.inlineTotals =
                   addNutrients(calculateInlineTotals(entries),
                                calculateInlineTotals(valid), -100)

\* C15, amended: no inline entry of the section is taken as a workout entry:
\* workoutTotals is empty and inlineTotals is the key-wise sum of all the
\* inline entries of the section, those that would qualify included.
C15_NoWorkoutAdjustment ==
    \A tokens \in {InlineTokensOf(foodLogLines)} :
        calcResult.ends = "value" =>
            /\ calcResult.value.workoutTotals = EmptyData
            /\ \A k \in NutrientKeys : \A defining \in {InlineDefining(tokens, k)} :
                   /\ k \in DOMAIN calcResult.value.inlineTotals <=> defining # {}
                   /\ defining # {} =>
                          calcResult.value.inlineTotals[k] =
                              SumOver(defining,
                                      [t \in defining |-> parseFloat(tokens[t[1]][t[2]].g1)])

\* C15: an inline entry of the section qualifies as a workout entry and its
\* calories are still counted in inlineTotals.
C15_Witness ==
    /\ calcResult.ends = "value"
    /\ Len(filterValidWorkoutEntries(inlineEntries)) > 0
    /\ "calories" \in DOMAIN calcResult.value.inlineTotals
    /\ calcResult.value.inlineTotals["calories"] > 0

\* The value of key k in the nutrient record t, 0 when the key is absent.
ValueOrZero(t, k) == IF k \in DOMAIN t THEN t[k] ELSE 0

\* C16: the keys of combinedTotals are those of linkedTotals and of
\* inlineTotals together, each value the sum of the two sides (0 for a missing
\* side); clampedTotals has the keys of combinedTotals, each value the larger
\* of 0 and the combined value, hence never negative.
C16_CombinedAndClamped ==
    calcResult.ends = "value" =>
        \A totals \in {calcResult.value} :
            /\ DOMAIN totals.combinedTotals =
                   DOMAIN totals.linkedTotals \cup DOMAIN totals.inlineTotals
            /\ \A k \in DOMAIN totals.combinedTotals :
                   totals.combinedTotals[k] =
                       ValueOrZero(totals.linkedTotals, k) + ValueOrZero(totals.inlineTotals, k)
            /\ DOMAIN totals.clampedTotals = DOMAIN totals.combinedTotals
            /\ \A k \in DOMAIN totals.clampedTotals :
                   /\ totals.clampedTotals[k] >= 0
                   /\ totals.clampedTotals[k] >= totals.combinedTotals[k]
                   /\ totals.clampedTotals[k] \in {0, totals.combinedTotals[k]}

\* C16: a key comes from both sides, a key from the linked side alone, and a
\* combined value below zero is clamped.
C16_Witness ==
    /\ calcResult.ends = "value"
    /\ DOMAIN calcResult.value.linkedTotals \cap DOMAIN calcResult.value.inlineTotals # {}
    /\ DOMAIN calcResult.value.linkedTotals \ DOMAIN calcResult.value.inlineTotals # {}
    /\ \E k \in DOMAIN calcResult.value.combinedTotals :
           /\ calcResult.value.combinedTotals[k] < 0
           /\ calcResult.value.clampedTotals[k] = 0

\* p is Math.round(100 * num / den), the whole number nearest to the
\* percentage (a half goes up), for den other than 0.
IsRoundedPercent(p, num, den) ==
    IF den > 0
    THEN 2 * p * den - den <= 200 * num /\ 200 * num < 2 * p * den + den
    ELSE 2 * p * (0 - den) + den <= 0 - 200 * num /\ 0 - 200 * num < 2 * p * (0 - den) - den

\* Math.round(100 * num / den) is 0 or less: the percentage is below a half.
RoundsToNoMoreThanZero(num, den) ==
    IF den > 0 THEN 200 * num < den ELSE 0 - 200 * num < 0 - den

\* The goals supplied, what was consumed of key k, and the progress record
\* of key k in the result.
goalValues == goals.data

Consumed(k) == ValueOrZero(calcResult.value.clampedTotals, k)

Progress(k) == calcResult.value.goalProgress.data[k]

\* The result holds goal progress.
HasProgress == calcResult.ends = "value" /\ calcResult.value.goalProgress.kind = "goals"

\* C17, as claimed: for every key with a goal g and consumed c, remaining is
\* g - c, percentConsumed is round(c / g x 100) and percentRemaining is
\* max(0, round((g - c) / g x 100)) unless g is 0, where both are 0.
C17_GoalProgressAsClaimed ==
    HasProgress =>
        \A k \in DOMAIN calcResult.value.goalProgress.data :
            \A g \in {goalValues[k]} : \A c \in {Consumed(k)} : \A p \in {Progress(k)} :
                /\ p.remaining = g - c
                /\ g = 0 => p.percentConsumed = 0 /\ p.percentRemaining = 0
                /\ g # 0 =>
                       /\ IsRoundedPercent(p.percentConsumed, c, g)
                       /\ \/ p.percentRemaining = 0 /\ RoundsToNoMoreThanZero(g - c, g)
                          \/ p.percentRemaining > 0 /\ IsRoundedPercent(p.percentRemaining, g - c, g)

\* C17, amended: as claimed for a goal above 0; both percentages are 0 when
\* the goal is 0 or negative; percentRemaining is never negative and remaining
\* is negative exactly when the consumed value exceeds the goal.
C17_GoalProgressValues ==
    HasProgress =>
        \A k \in DOMAIN calcResult.value.goalProgress.data :
            \A g \in {goalValues[k]} : \A c \in {Consumed(k)} : \A p \in {Progress(k)} :
                /\ p.remaining = g - c
                /\ g <= 0 => p.percentConsumed = 0 /\ p.percentRemaining = 0
                /\ g > 0 =>
                       /\ IsRoundedPercent(p.percentConsumed, c, g)
                       /\ \/ p.percentRemaining = 0 /\ RoundsToNoMoreThanZero(g - c, g)
                          \/ p.percentRemaining > 0 /\ IsRoundedPercent(p.percentRemaining, g - c, g)
                /\ p.percentRemaining >= 0
                /\ p.remaining < 0 <=> c > g

\* C17: a goal above 0 is partly consumed with a percentage that had to be
\* rounded, and a negative goal has something consumed against it.
C17_Witness ==
    /\ HasProgress
    /\ \E k \in DOMAIN calcResult.value.goalProgress.data :
           /\ goalValues[k] > 0 /\ Consumed(k) > 0 /\ Consumed(k) < goalValues[k]
           /\ (100 * Consumed(k)) % goalValues[k] # 0
    /\ \E k \in DOMAIN calcResult.value.goalProgress.data :
           goalValues[k] < 0 /\ Consumed(k) > 0

\* C18: the result holds no goal progress when no goals are supplied; when
\* goals are supplied it holds an entry for a nutrient key exactly when the
\* goals define that key, whether or not anything was consumed of it.
C18_GoalProgressKeys ==
    calcResult.ends = "value" =>
        /\ goals.kind = "undefined" => calcResult.value.goalProgress.kind = "undefined"
        /\ goals.kind = "goals" =>
               /\ calcResult.value.goalProgress.kind = "goals"
               /\ \A k \in NutrientKeys \cup DOMAIN calcResult.value.goalProgress.data :
                      k \in DOMAIN calcResult.value.goalProgress.data <=> k \in DOMAIN goalValues

\* C18: goals are supplied; a key with a goal has nothing consumed, and a
\* nutrient key that was consumed has no goal.
C18_Witness ==
    /\ HasProgress
    /\ \E k \in DOMAIN goalValues : k \notin DOMAIN calcResult.value.clampedTotals
    /\ \E k \in NutrientKeys \cap DOMAIN calcResult.value.clampedTotals :
           /\ calcResult.value.clampedTotals[k] > 0
           /\ k \notin DOMAIN goalValues

\* The first linked match of each line that has one, as the entry the
\* aggregator is due to make of it.
RECURSIVE FirstLinkedOf(_, _)
FirstLinkedOf(lines, i) ==
    IF i > Len(lines) THEN <<>>
    ELSE (IF LinkedMatches(lines[i], 0) = <<>> THEN <<>>
          ELSE <<[filename |-> LinkedMatches(lines[i], 0)[1].g1,
                  amount |-> parseFloat(LinkedMatches(lines[i], 0)[1].g2),
                  unit |-> toLowerCase(LinkedMatches(lines[i], 0)[1].g3)]>>)
         \o FirstLinkedOf(lines, i + 1)

\* The ranges of one kind among the highlight ranges of a line.
RangesOfType(line, type) ==
    LET IsOfType(r) == r.type = type
    IN  SelectSeq(extractFoodHighlightRanges(line, 0), IsOfType)

\* C21: the aggregator makes at most one linked entry and at most one inline
\* entry of a section line, of the first match of each family: linkedTotals is
\* the scaled sum over the first linked match of each line and inlineTotals the
\* sum over the tokens of the first inline match of each line, while the
\* highlight ranges of the line are one amount range for every linked match
\* and one nutrition range for every nutrient token of the line.
C21_FirstMatchEntries ==
    \A lines \in {foodLogLines} :
        calcResult.ends = "value" =>
            /\ \A first \in {FirstLinkedOf(lines, 1)} :
                   /\ Len(first) <= Len(lines)
                   /\ \A k \in NutrientKeys : \A defining \in {LinkedDefining(first, k)} :
                          /\ k \in DOMAIN calcResult.value.linkedTotals <=> defining # {}
                          /\ defining # {} =>
                                 calcResult.value.linkedTotals[k] =
                                     SumOver(defining, [i \in defining |-> LinkedShare(first, k, i)])
            /\ \A tokens \in {InlineTokensOf(lines)} :
                   \A k \in NutrientKeys : \A defining \in {InlineDefining(tokens, k)} :
                       /\ k \in DOMAIN calcResult.value.inlineTotals <=> defining # {}
                       /\ defining # {} =>
                              calcResult.value.inlineTotals[k] =
                                  SumOver(defining,
                                          [t \in defining |-> parseFloat(tokens[t[1]][t[2]].g1)])
            /\ \A i \in 1..Len(lines) :
                   /\ Len(RangesOfType(lines[i], "amount")) = Len(LinkedMatches(lines[i], 0))
                   /\ Len(RangesOfType(lines[i], "nutrition")) = Len(NutritionMatches(lines[i], 0))

\* C21: a section line holds two linked references that both resolve, with
\* two amount ranges, and linkedTotals holds the share of the first alone; a
\* line holds three nutrient tokens, with three nutrition ranges, of which the
\* inline entry counts the first two.
C21_Witness ==
    /\ calcResult.ends = "value"
    /\ Len(foodLogLines) = 2
    /\ Len(LinkedMatches(foodLogLines[1], 0)) = 2
    /\ Len(RangesOfType(foodLogLines[1], "amount")) = 2
    /\ \A f \in FileNames : store[f].kind = "data"
    /\ calcResult.value.linkedTotals["calories"] = 300000
    /\ "carbs" \notin DOMAIN calcResult.value.linkedTotals
    /\ Len(NutritionMatches(foodLogLines[2], 0)) = 3
    /\ Len(RangesOfType(foodLogLines[2], "nutrition")) = 3
    /\ calcResult.value.inlineTotals["fats"] = -200

\* The line starts with a linked reference.
StartsWithReference(line) == WordAt(line, 0, <<"[", "[">>)

\* The section lines that do not start with a linked reference, in order.
PlainLines(lines) ==
    LET IsPlain(line) == ~StartsWithReference(line)
    IN  SelectSeq(lines, IsPlain)

\* C22: only a section line whose leading text does not start with "[[" makes
\* an inline entry: inlineTotals is the sum over the inline entries of those
\* lines, and a line that starts with a linked reference and goes on with
\* nutrient tokens counts for linkedTotals alone.
C22_InlineNeedsPlainLead ==
    \A tokens \in {InlineTokensOf(PlainLines(foodLogLines))} :
        calcResult.ends = "value" =>
            \A k \in NutrientKeys : \A defining \in {InlineDefining(tokens, k)} :
                /\ k \in DOMAIN calcResult.value.inlineTotals <=> defining # {}
                /\ defining # {} =>
                       calcResult.value.inlineTotals[k] =
                           SumOver(defining,
                                   [t \in defining |-> parseFloat(tokens[t[1]][t[2]].g1)])

(***************************************************************************)
(* FoodHighlightPostProcessor.  A DOM tree is the sequence of its nodes in *)
(* document order, each with its depth; the first node is the element      *)
(* handed to process, at depth 0.  The nodes of the subtree of node i are  *)
(* the nodes after i, up to the next node that is no deeper than i.        *)
(***************************************************************************)
HintClass == "food-tracker-inline-calories"

LinkClass == "internal-link"

TagClass == "tag"

ValueClass == "food-tracker-value"

NutritionValueClass == "food-tracker-nutrition-value"

NegativeKcalClass == "food-tracker-negative-kcal"

\* document.createTextNode(s), placed at depth d.
TextNode(d, s) ==
    [kind |-> "text", depth |-> d, text |-> s, tag |-> "", cls |-> "",
     hasHref |-> FALSE, href |-> <<>>]

\* An element without children, placed at depth d.
Element(d, tag, cls) ==
    [kind |-> "elem", depth |-> d, text |-> <<>>, tag |-> tag, cls |-> cls,
     hasHref |-> FALSE, href |-> <<>>]

\* span = createElement("span"); span.className = cls; span.textContent = s:
\* the span and the one text node it holds, none when s is empty.
SpanWithText(d, cls, s) ==
    <<Element(d, "SPAN", cls)>> \o (IF s = <<>> THEN <<>> ELSE <<TextNode(d + 1, s)>>)

\* The last node of the subtree of node i.
SubtreeEnd(nodes, i) ==
    LET after == {j \in (i + 1)..Len(nodes) : nodes[j].depth <= nodes[i].depth}
    IN  IF after = {} THEN Len(nodes)
        ELSE (CHOOSE j \in after : \A k \in after : j <= k) - 1

\* node.parentNode
ParentOf(nodes, i) ==
    CHOOSE j \in 1..(i - 1) :
        /\ nodes[j].depth = nodes[i].depth - 1
        /\ \A k \in (j + 1)..(i - 1) : nodes[k].depth >= nodes[i].depth

\* node.textContent
RECURSIVE TextFrom(_, _, _)
TextFrom(nodes, i, last) ==
    IF i > last THEN <<>>
    ELSE (IF nodes[i].kind = "text" THEN nodes[i].text ELSE <<>>)
         \o TextFrom(nodes, i + 1, last)

textContent(nodes, i) ==
    IF nodes[i].kind = "text" THEN nodes[i].text
    ELSE TextFrom(nodes, i + 1, SubtreeEnd(nodes, i))

\* The tree in which node k gives way to the nodes piece[k], for every k.
RECURSIVE Splice(_, _, _)
Splice(nodes, piece, k) ==
    IF k > Len(nodes) THEN <<>> ELSE piece[k] \o Splice(nodes, piece, k + 1)

\* getNodeDepth(node, root) with the container c as the root.
getNodeDepth(nodes, c, i) == nodes[i].depth - nodes[c].depth

\* skipNodeChildren: the node the walker rests on after it, the walker being
\* on node i of the container c.  The walker's next node is the one after it.
RECURSIVE SkipLoop(_, _, _, _)
SkipLoop(nodes, c, depth, cur) ==
    IF cur + 1 > SubtreeEnd(nodes, c) THEN cur
    ELSE IF getNodeDepth(nodes, c, cur + 1) <= depth THEN cur
    ELSE SkipLoop(nodes, c, depth, cur + 1)

\* A variant of skipNodeChildren without the step back (walker.previousNode):
\* the walker rests on the first node after the subtree.
skipNodeChildrenAndNext(nodes, c, i) ==
    LET last == SkipLoop(nodes, c, getNodeDepth(nodes, c, i), i)
    IN  IF last + 1 > SubtreeEnd(nodes, c) THEN last ELSE last + 1

skipNodeChildren(nodes, c, i) == SkipLoop(nodes, c, getNodeDepth(nodes, c, i), i)

\* `[[${href}]]` of a link element, href being data-href ?? textContent.
WikiLink(nodes, i) ==
    <<"[", "[">> \o (IF nodes[i].hasHref THEN nodes[i].href ELSE textContent(nodes, i))
                 \o <<"]", "]">>

\* reconstructMarkdownText: the loop, the walker resting on node cur.
RECURSIVE ReconstructLoop(_, _, _, _)
ReconstructLoop(nodes, c, cur, result) ==
    LET node == cur + 1
    IN  IF node > SubtreeEnd(nodes, c) THEN result
        ELSE IF nodes[node].kind = "text"
        THEN ReconstructLoop(nodes, c, node, result \o nodes[node].text)
        ELSE IF nodes[node].cls = HintClass
        THEN ReconstructLoop(nodes, c, skipNodeChildren(nodes, c, node), result)
        ELSE IF nodes[node].cls = LinkClass
        THEN ReconstructLoop(nodes, c, skipNodeChildren(nodes, c, node),
                             result \o WikiLink(nodes, node))
        ELSE IF nodes[node].cls = TagClass
        THEN ReconstructLoop(nodes, c, skipNodeChildren(nodes, c, node),
                             result \o textContent(nodes, node))
        ELSE IF nodes[node].tag = "BR"
        THEN ReconstructLoop(nodes, c, node, result \o <<NL>>)
        ELSE ReconstructLoop(nodes, c, node, result)

reconstructMarkdownText(nodes, c) == ReconstructLoop(nodes, c, c, <<>>)

\* /^##\s*Food Log$/im .test(text): some line of the text is two hashes, white
\* space, and the title in any letter case.  White space can run over line
\* breaks, so the hashes may end a line and the title start a later one.
containsRelevantTags(text) ==
    \E p \in 0..Len(text) :
        /\ p = 0 \/ text[p] \in LineTerminators
        /\ WordAt(text, p, <<"#", "#">>)
        /\ LET q == RunEnd(text, p + 2, WhiteSpace)
           IN  /\ WordAt(text, q, FoodLog)
               /\ (q + Len(FoodLog) = Len(text)
                   \/ text[q + Len(FoodLog) + 1] \in LineTerminators)

\* The elements of the container c (c aside) with one of the classes.
QuerySelectorAll(nodes, c, classes) ==
    {i \in (c + 1)..SubtreeEnd(nodes, c) : nodes[i].kind = "elem" /\ nodes[i].cls \in classes}

\* Whether node i lies inside one of the elements of the set.
InsideOneOf(nodes, i, elements) ==
    \E w \in elements : w < i /\ i <= SubtreeEnd(nodes, w)

\* A variant of UnwrapAll that takes the wrappers of the whole tree.
UnwrapAllOfTree(nodes, c) ==
    LET wrappers == QuerySelectorAll(nodes, 1, {ValueClass, NutritionValueClass})
        piece == [k \in 1..Len(nodes) |->
                     IF InsideOneOf(nodes, k, wrappers) THEN <<>>
                     ELSE IF k \in wrappers
                     THEN <<TextNode(nodes[k].depth, textContent(nodes, k))>>
                     ELSE <<nodes[k]>>]
    IN  Splice(nodes, piece, 1)

\* The first statement of highlightMatches: every wrapper gives way to a text
\* node of its text.  A wrapper inside a wrapper has left the tree with the
\* outer one when its turn comes, and replaceWith does nothing for it.
UnwrapAll(nodes, c) ==
    LET wrappers == QuerySelectorAll(nodes, c, {ValueClass, NutritionValueClass})
        piece == [k \in 1..Len(nodes) |->
                     IF InsideOneOf(nodes, k, wrappers) THEN <<>>
                     ELSE IF k \in wrappers
                     THEN <<TextNode(nodes[k].depth, textContent(nodes, k))>>
                     ELSE <<nodes[k]>>]
    IN  Splice(nodes, piece, 1)

\* [...ranges].sort((a, b) => b.start - a.start): a stable sort, by insertion.
RECURSIVE InsertByStart(_, _)
InsertByStart(sorted, r) ==
    IF Len(sorted) = 0 THEN <<r>>
    ELSE IF sorted[Len(sorted)].start >= r.start THEN Append(sorted, r)
    ELSE Append(InsertByStart(SubSeq(sorted, 1, Len(sorted) - 1), r), sorted[Len(sorted)])

RECURSIVE SortByStartDescending(_)
SortByStartDescending(ranges) ==
    IF Len(ranges) = 0 THEN <<>>
    ELSE InsertByStart(SortByStartDescending(SubSeq(ranges, 1, Len(ranges) - 1)),
                       ranges[Len(ranges)])

getClassNameForType(type) ==
    IF type = "amount" THEN ValueClass ELSE NutritionValueClass

\* The first loop of wrapTextAtPosition: nodesToWrap, the walker resting on
\* node cur with currentPosition characters behind it.
RECURSIVE WrapScan(_, _, _, _, _, _, _)
WrapScan(nodes, c, startPos, endPos, cur, currentPosition, nodesToWrap) ==
    LET node == cur + 1
    IN  IF node > SubtreeEnd(nodes, c) THEN nodesToWrap
        ELSE IF nodes[node].kind = "text"
        THEN LET textLength == Len(nodes[node].text)
                 nodeStart == currentPosition
                 nodeEnd == currentPosition + textLength
                 found ==
                     IF nodeEnd > startPos /\ nodeStart < endPos
                     THEN Append(nodesToWrap,
                                 [node |-> node,
                                  startOffset |-> Max(0, startPos - nodeStart),
                                  endOffset |-> Min(textLength, endPos - nodeStart)])
                     ELSE nodesToWrap
             IN  IF nodeEnd >= endPos THEN found
                 ELSE WrapScan(nodes, c, startPos, endPos, node, nodeEnd, found)
        ELSE IF nodes[node].cls = HintClass
        THEN WrapScan(nodes, c, startPos, endPos, skipNodeChildren(nodes, c, node),
                      currentPosition, nodesToWrap)
        ELSE IF nodes[node].cls = LinkClass
        THEN LET after == currentPosition + Len(WikiLink(nodes, node))
             IN  IF after >= endPos THEN nodesToWrap
                 ELSE WrapScan(nodes, c, startPos, endPos,
                               skipNodeChildren(nodes, c, node), after, nodesToWrap)
        ELSE IF nodes[node].cls = TagClass
        THEN LET after == currentPosition + Len(textContent(nodes, node))
             IN  IF after >= endPos THEN nodesToWrap
                 ELSE WrapScan(nodes, c, startPos, endPos,
                               skipNodeChildren(nodes, c, node), after, nodesToWrap)
        ELSE IF nodes[node].tag = "BR"
        THEN IF currentPosition + 1 >= endPos THEN nodesToWrap
             ELSE WrapScan(nodes, c, startPos, endPos, node, currentPosition + 1, nodesToWrap)
        ELSE WrapScan(nodes, c, startPos, endPos, node, currentPosition, nodesToWrap)

\* A variant of WrappedText that leaves out the nodes between the first and
\* the last.
RECURSIVE WrappedTextOfEnds(_, _, _)
WrappedTextOfEnds(nodes, nodesToWrap, i) ==
    IF i > Len(nodesToWrap) THEN <<>>
    ELSE LET nodeText == nodes[nodesToWrap[i].node].text
         IN  (IF i = 1 \/ i = Len(nodesToWrap)
              THEN Substring(nodeText, nodesToWrap[i].startOffset, nodesToWrap[i].endOffset)
              ELSE <<>>)
             \o WrappedTextOfEnds(nodes, nodesToWrap, i + 1)

\* The text the span of the second branch ends up with: the first node's
\* slice, the whole of each node between, the last node's slice.
RECURSIVE WrappedText(_, _, _)
WrappedText(nodes, nodesToWrap, i) ==
    IF i > Len(nodesToWrap) THEN <<>>
    ELSE LET nodeText == nodes[nodesToWrap[i].node].text
         IN  (IF i = 1 \/ i = Len(nodesToWrap)
              THEN Substring(nodeText, nodesToWrap[i].startOffset, nodesToWrap[i].endOffset)
              ELSE nodeText)
             \o WrappedText(nodes, nodesToWrap, i + 1)

\* A text node of s at depth d, none when s is empty (if (before) ...).
TextIfAny(d, s) == IF s = <<>> THEN <<>> ELSE <<TextNode(d, s)>>

\* if (after) parent.insertBefore(document.createTextNode(after), textNode)
AfterNode(d, after) == TextIfAny(d, after)

\* A variant of the first branch that wraps the whole text node, not the slice.
WrapOneWhole(nodes, w, className) ==
    LET textNode == nodes[w.node]
        piece == [k \in 1..Len(nodes) |->
                     IF k = w.node
                     THEN SpanWithText(textNode.depth, className, textNode.text)
                     ELSE <<nodes[k]>>]
    IN  Splice(nodes, piece, 1)

\* The first branch of wrapTextAtPosition: one node to wrap.
WrapOne(nodes, w, className) ==
    LET textNode == nodes[w.node]
        before == Substring(textNode.text, 0, w.startOffset)
        match == Substring(textNode.text, w.startOffset, w.endOffset)
        after == Substring(textNode.text, w.endOffset, Len(textNode.text))
        piece == [k \in 1..Len(nodes) |->
                     IF k = w.node
                     THEN TextIfAny(textNode.depth, before)
                          \o SpanWithText(textNode.depth, className, match)
                          \o AfterNode(textNode.depth, after)
                     ELSE <<nodes[k]>>]
    IN  Splice(nodes, piece, 1)

\* The second branch: several nodes to wrap.
WrapSeveral(nodes, nodesToWrap, className) ==
    LET first == nodesToWrap[1]
        last == nodesToWrap[Len(nodesToWrap)]
        between == {nodesToWrap[i].node : i \in 2..(Len(nodesToWrap) - 1)}
        piece == [k \in 1..Len(nodes) |->
                     IF k = first.node
                     THEN TextIfAny(nodes[k].depth,
                                    Substring(nodes[k].text, 0, first.startOffset))
                          \o SpanWithText(nodes[k].depth, className,
                                          WrappedText(nodes, nodesToWrap, 1))
                     ELSE IF k = last.node
                     THEN AfterNode(nodes[k].depth,
                                    Substring(nodes[k].text, last.endOffset, Len(nodes[k].text)))
                     ELSE IF k \in between THEN <<>>
                     ELSE <<nodes[k]>>]
    IN  Splice(nodes, piece, 1)

\* A variant of wrapTextAtPosition that adds an empty span at the end of the
\* tree when no text node overlaps the range.
wrapTextOrAppend(nodes, c, startPos, endPos, className) ==
    LET nodesToWrap == WrapScan(nodes, c, startPos, endPos, c, 0, <<>>)
    IN  IF Len(nodesToWrap) = 0
        THEN nodes \o <<Element(nodes[c].depth + 1, "SPAN", className)>>
        ELSE IF Len(nodesToWrap) = 1 THEN WrapOne(nodes, nodesToWrap[1], className)
        ELSE WrapSeveral(nodes, nodesToWrap, className)

wrapTextAtPosition(nodes, c, startPos, endPos, className) ==
    LET nodesToWrap == WrapScan(nodes, c, startPos, endPos, c, 0, <<>>)
    IN  IF Len(nodesToWrap) = 0 THEN nodes
        ELSE IF Len(nodesToWrap) = 1 THEN WrapOne(nodes, nodesToWrap[1], className)
        ELSE WrapSeveral(nodes, nodesToWrap, className)

\* The part of s before the first ch (s.split(ch)[0]).
BeforeFirst(s, ch) ==
    LET at == IndexOf(s, <<ch>>)
    IN  IF at < 0 THEN s ELSE Substring(s, 0, at)

\* The part of s after the last ch (s.split(ch).pop()).
AfterLast(s, ch) ==
    LET at == {i \in 1..Len(s) : s[i] = ch}
    IN  IF at = {} THEN s
        ELSE Substring(s, CHOOSE i \in at : \A j \in at : i >= j, Len(s))

\* rawFileName.split("|")[0].split("#")[0].split("/").pop()?.trim()
NormalizeFileName(rawFileName) ==
    trim(AfterLast(BeforeFirst(BeforeFirst(rawFileName, "|"), "#"), "/"))

\* The decimal digits of a natural number (`${n}`).
RECURSIVE NumberToString(_)
NumberToString(n) ==
    LET digit == <<"0", "1", "2", "3", "4", "5", "6", "7", "8", "9">>[(n % 10) + 1]
    IN  IF n < 10 THEN <<digit>> ELSE Append(NumberToString(n \div 10), digit)

\* A variant of MathRound that drops the fraction (Math.floor).
MathFloor(x) == x \div 100

\* Math.round of a number held in hundredths.
MathRound(x) == (x + 50) \div 100

\* calorieProvider.getCaloriesForFood and getServingSize of process: <<>> for
\* null, <<n>> for the number n.  The cache answers null or a record.
ProviderField(nutrients, fileName, field) ==
    LET normalized == trim(fileName)
        data == IF normalized \in DOMAIN nutrients THEN nutrients[normalized] ELSE ReturnsNull
    IN  IF normalized = <<>> THEN <<>>
        ELSE IF data.kind = "data" /\ field \in DOMAIN data.data THEN <<data.data[field]>>
        ELSE <<>>

getCaloriesForFood(nutrients, fileName) == ProviderField(nutrients, fileName, "calories")

getServingSize(nutrients, fileName) == ProviderField(nutrients, fileName, "serving_size")

\* The annotations of the linked matches of one line, which ends at lineEnd.
RECURSIVE LineAnnotations(_, _, _, _)
LineAnnotations(matches, i, lineEnd, nutrients) ==
    IF i > Len(matches) THEN <<>>
    ELSE
        LET amount == parseFloat(matches[i].g2)
            unit == matches[i].g3
            normalizedFileName == NormalizeFileName(matches[i].g1)
            caloriesPerHundred == getCaloriesForFood(nutrients, normalizedFileName)
            servingSize == getServingSize(nutrients, normalizedFileName)
            multiplier == getUnitMultiplier(amount, unit, servingSize)
            calculatedCalories == Times(multiplier, caloriesPerHundred[1])
            formattedCalories == MathRound(calculatedCalories)
            rest == LineAnnotations(matches, i + 1, lineEnd, nutrients)
        IN  IF amount <= 0 THEN rest
            ELSE IF normalizedFileName = <<>> THEN rest
            ELSE IF caloriesPerHundred = <<>> THEN rest
            ELSE IF calculatedCalories < 0 THEN rest
            ELSE IF formattedCalories < 0 THEN rest
            ELSE <<[position |-> lineEnd,
                    text |-> NumberToString(formattedCalories) \o <<"k", "c", "a", "l">>]>>
                 \o rest

\* A variant of AnnotationsLoop that leaves startOffset out of the positions.
RECURSIVE AnnotationsLoopFromZero(_, _, _, _)
AnnotationsLoopFromZero(linesByOffset, i, startOffset, nutrients) ==
    IF i > Len(linesByOffset) THEN <<>>
    ELSE LineAnnotations(LinkedMatches(linesByOffset[i].line, 0), 1,
                         linesByOffset[i].offset + Len(linesByOffset[i].line),
                         nutrients)
         \o AnnotationsLoopFromZero(linesByOffset, i + 1, startOffset, nutrients)

RECURSIVE AnnotationsLoop(_, _, _, _)
AnnotationsLoop(linesByOffset, i, startOffset, nutrients) ==
    IF i > Len(linesByOffset) THEN <<>>
    ELSE LineAnnotations(LinkedMatches(linesByOffset[i].line, 0), 1,
                         startOffset + linesByOffset[i].offset + Len(linesByOffset[i].line),
                         nutrients)
         \o AnnotationsLoop(linesByOffset, i + 1, startOffset, nutrients)

extractInlineCalorieAnnotations(text, startOffset, nutrients) ==
    AnnotationsLoop(extractLinesUnderHeading(text, FoodLog), 1, startOffset, nutrients)

(***************************************************************************)
(* FoodHighlightExtension, the state machine: the view plugin rebuilds its *)
(* decorations (highlight ranges and calorie hints) of the visible range   *)
(* when the document or the viewport changes, and anew when the extension  *)
(* is reconfigured.                                                        *)
(***************************************************************************)
\* buildDecorations for the visible range [from, to) of document d, hints
\* being what showCalorieHints holds.
BuildDecorations(d, from, to, hints) ==
    /\ secLines' = extractLinesUnderHeading(Substring(d, from, to), FoodLog)
    /\ hlRanges' = extractMultilineHighlightRanges(Substring(d, from, to), from)
    /\ annotations' =
           IF hints
           THEN extractInlineCalorieAnnotations(Substring(d, from, to), from, nutrientCache)
           ELSE <<>>

\* The constructor of the plugin: buildDecorations on the document opened.
EditorInit ==
    /\ doc \in LineCatalog
    /\ vpFrom = 0
    /\ vpTo = Len(doc)
    /\ secLines = extractLinesUnderHeading(doc, FoodLog)
    /\ hlRanges = extractMultilineHighlightRanges(doc, 0)
    /\ showCalorieHints = TRUE
    /\ nutrientCache = <<>>
    /\ annotations = extractInlineCalorieAnnotations(doc, 0, nutrientCache)
    /\ content = <<>>
    /\ store = <<>>
    /\ goals = <<>>
    /\ calcResult = <<>>
    /\ readErrors = <<>>
    /\ tree = <<>>
    /\ settings = <<>>
    /\ pc = <<>>
    /\ passText = <<>>
    /\ treeBefore = <<>>
    /\ passes = 0
    /\ stable = 0
    /\ raised = FALSE
    /\ NoAsync

\* A transaction that appends a line (update with docChanged).
InsertLine(l) ==
    /\ Len(SplitLines(doc)) < MaxLines
    /\ doc' = doc \o <<NL>> \o l
    /\ vpFrom' = 0
    /\ vpTo' = Len(doc')
    /\ UNCHANGED showCalorieHints
    /\ BuildDecorations(doc', vpFrom', vpTo', showCalorieHints)
    /\ UNCHANGED <<calcVars, treeVars, asyncVars>>

\* Scrolling down or up (update with viewportChanged): the visible range
\* starts at another line.
Scroll(from) ==
    /\ from # vpFrom
    /\ vpFrom' = from
    /\ vpTo' = Len(doc)
    /\ UNCHANGED <<doc, showCalorieHints>>
    /\ BuildDecorations(doc, from, Len(doc), showCalorieHints)
    /\ UNCHANGED <<calcVars, treeVars, asyncVars>>

EditorNext ==
    \/ \E l \in LineCatalog : InsertLine(l)
    \/ \E from \in LineStarts(doc) : Scroll(from)

SpecEditor == EditorInit /\ [][EditorNext]_vars

(***************************************************************************)
(* The calorie hints of the editor: the same plugin over notes with linked *)
(* entries and a nutrient cache that knows some of the files.              *)
(***************************************************************************)
HintLineCatalog ==
    { <<"#", "#", " ", "F", "o", "o", "d", " ", "L", "o", "g">>,
      <<"#", "#", " ", "B">>,
      <<"[", "[", "x", "]", "]", " ", "5", "g">>,
      <<"[", "[", "p", "/", "x", "|", "a", "]", "]", " ", "5", "g", " ",
        "[", "[", "y", "]", "]", " ", "2", "p", "c">>,
      <<"[", "[", "n", "]", "]", " ", "5", "g", " ",
        "[", "[", "x", "]", "]", " ", "0", "g">>,
      <<"[", "[", " ", "|", "a", "]", "]", " ", "5", "g", " ",
        "[", "[", "w", "]", "]", " ", "5", "g">> }

\* What the cache holds: values per 100 g, in hundredths.  x has 210 kcal, y
\* has 50 kcal and a serving of 30 g, n has negative calories, w has no
\* calories; any other file is unknown.
HintCache ==
    [f \in {<<"x">>, <<"y">>, <<"n">>, <<"w">>} |->
        IF f = <<"x">> THEN Returns([k \in {"calories"} |-> 21000])
        ELSE IF f = <<"y">>
        THEN Returns([k \in {"calories", "serving_size"} |->
                         IF k = "calories" THEN 5000 ELSE 3000])
        ELSE IF f = <<"n">> THEN Returns([k \in {"calories"} |-> -1000])
        ELSE Returns([k \in {"fats"} |-> 1000])]

HintsInit ==
    /\ doc \in HintLineCatalog
    /\ vpFrom = 0
    /\ vpTo = Len(doc)
    /\ secLines = extractLinesUnderHeading(doc, FoodLog)
    /\ hlRanges = extractMultilineHighlightRanges(doc, 0)
    /\ showCalorieHints = TRUE
    /\ nutrientCache = HintCache
    /\ annotations = extractInlineCalorieAnnotations(doc, 0, nutrientCache)
    /\ content = <<>>
    /\ store = <<>>
    /\ goals = <<>>
    /\ calcResult = <<>>
    /\ readErrors = <<>>
    /\ tree = <<>>
    /\ settings = <<>>
    /\ pc = <<>>
    /\ passText = <<>>
    /\ treeBefore = <<>>
    /\ passes = 0
    /\ stable = 0
    /\ raised = FALSE
    /\ NoAsync

\* The settings emit: the extension takes showCalorieHints over and
\* reconfigures the editors, whose new plugin builds its decorations.
Reconfigure(hints) ==
    /\ hints # showCalorieHints
    /\ showCalorieHints' = hints
    /\ UNCHANGED <<doc, vpFrom, vpTo>>
    /\ BuildDecorations(doc, vpFrom, vpTo, hints)
    /\ UNCHANGED <<calcVars, treeVars, asyncVars>>

HintsNext ==
    \/ \E l \in HintLineCatalog : InsertLine(l)
    \/ \E from \in LineStarts(doc) : Scroll(from)
    \/ \E hints \in BOOLEAN : Reconfigure(hints)

SpecHints == HintsInit /\ [][HintsNext]_vars

\* A variant of FindLoop that takes a text node only when the position lies
\* before its end.
RECURSIVE FindLoopHalfOpen(_, _, _, _, _)
FindLoopHalfOpen(nodes, c, position, cur, currentPosition) ==
    LET node == cur + 1
    IN  IF node > SubtreeEnd(nodes, c) THEN 0
        ELSE IF nodes[node].kind = "text"
        THEN LET textLength == Len(nodes[node].text)
             IN  IF currentPosition + textLength > position THEN node
                 ELSE FindLoopHalfOpen(nodes, c, position, node, currentPosition + textLength)
        ELSE IF nodes[node].cls = HintClass
        THEN FindLoopHalfOpen(nodes, c, position, skipNodeChildren(nodes, c, node), currentPosition)
        ELSE IF nodes[node].cls = LinkClass
        THEN LET wikiLinkLength == Len(WikiLink(nodes, node))
             IN  IF currentPosition + wikiLinkLength >= position THEN node
                 ELSE FindLoopHalfOpen(nodes, c, position, skipNodeChildren(nodes, c, node),
                               currentPosition + wikiLinkLength)
        ELSE IF nodes[node].cls = TagClass
        THEN LET tagLength == Len(textContent(nodes, node))
             IN  IF currentPosition + tagLength >= position THEN node
                 ELSE FindLoopHalfOpen(nodes, c, position, skipNodeChildren(nodes, c, node),
                               currentPosition + tagLength)
        ELSE IF nodes[node].tag = "BR"
        THEN IF currentPosition + 1 >= position THEN node
             ELSE FindLoopHalfOpen(nodes, c, position, node, currentPosition + 1)
        ELSE FindLoopHalfOpen(nodes, c, position, node, currentPosition)

\* findInsertionNodeAtPosition: the loop, the walker resting on node cur; 0
\* when the loop ends with no target.
RECURSIVE FindLoop(_, _, _, _, _)
FindLoop(nodes, c, position, cur, currentPosition) ==
    LET node == cur + 1
    IN  IF node > SubtreeEnd(nodes, c) THEN 0
        ELSE IF nodes[node].kind = "text"
        THEN LET textLength == Len(nodes[node].text)
             IN  IF currentPosition + textLength >= position THEN node
                 ELSE FindLoop(nodes, c, position, node, currentPosition + textLength)
        ELSE IF nodes[node].cls = HintClass
        THEN FindLoop(nodes, c, position, skipNodeChildren(nodes, c, node), currentPosition)
        ELSE IF nodes[node].cls = LinkClass
        THEN LET wikiLinkLength == Len(WikiLink(nodes, node))
             IN  IF currentPosition + wikiLinkLength >= position THEN node
                 ELSE FindLoop(nodes, c, position, skipNodeChildren(nodes, c, node),
                               currentPosition + wikiLinkLength)
        ELSE IF nodes[node].cls = TagClass
        THEN LET tagLength == Len(textContent(nodes, node))
             IN  IF currentPosition + tagLength >= position THEN node
                 ELSE FindLoop(nodes, c, position, skipNodeChildren(nodes, c, node),
                               currentPosition + tagLength)
        ELSE IF nodes[node].tag = "BR"
        THEN IF currentPosition + 1 >= position THEN node
             ELSE FindLoop(nodes, c, position, node, currentPosition + 1)
        ELSE FindLoop(nodes, c, position, node, currentPosition)

\* container.lastChild, 0 for null.
LastChild(nodes, c) ==
    LET children == {i \in (c + 1)..SubtreeEnd(nodes, c) : nodes[i].depth = nodes[c].depth + 1}
    IN  IF children = {} THEN 0 ELSE CHOOSE i \in children : \A j \in children : i >= j

\* A variant of findInsertionNodeAtPosition whose walk counts from one.
findInsertionNodeCountingFromOne(nodes, c, position) ==
    LET targetNode == FindLoop(nodes, c, position, c, 1)
    IN  IF targetNode # 0 THEN targetNode ELSE LastChild(nodes, c)

findInsertionNodeAtPosition(nodes, c, position) ==
    LET targetNode == FindLoop(nodes, c, position, c, 0)
    IN  IF targetNode # 0 THEN targetNode ELSE LastChild(nodes, c)

\* A variant of findInsertionPoint that does not walk up from targetNode.
TargetNodeItself(nodes, c, targetNode) == targetNode

\* findInsertionPoint: the nearest wrapper from targetNode up to the
\* container, or targetNode.
RECURSIVE InsertionPointLoop(_, _, _, _)
InsertionPointLoop(nodes, c, current, targetNode) ==
    IF current = c THEN targetNode
    ELSE IF /\ nodes[current].kind = "elem"
            /\ nodes[current].cls \in {ValueClass, NutritionValueClass, NegativeKcalClass}
    THEN current
    ELSE InsertionPointLoop(nodes, c, ParentOf(nodes, current), targetNode)

findInsertionPoint(nodes, c, targetNode) ==
    IF targetNode = 0 THEN 0 ELSE InsertionPointLoop(nodes, c, targetNode, targetNode)

\* A variant of RemoveHints that leaves the hint nodes where they are.
KeepHints(nodes, c) == nodes

\* container.querySelectorAll(".food-tracker-inline-calories").forEach(remove)
RemoveHints(nodes, c) ==
    LET hintNodes == QuerySelectorAll(nodes, c, {HintClass})
        piece == [k \in 1..Len(nodes) |->
                     IF k \in hintNodes \/ InsideOneOf(nodes, k, hintNodes) THEN <<>>
                     ELSE <<nodes[k]>>]
    IN  Splice(nodes, piece, 1)

\* One turn of the loop over hintPositions: the span goes in after the
\* insertion element, as its next sibling.
InsertHint(nodes, c, position, hintText) ==
    LET insertionPoint == findInsertionNodeAtPosition(nodes, c, position)
        insertionElement == findInsertionPoint(nodes, c, insertionPoint)
        at == SubtreeEnd(nodes, insertionElement)
        span == SpanWithText(nodes[insertionElement].depth, HintClass, <<" ">> \o hintText)
    IN  IF insertionPoint = 0 THEN nodes
        ELSE SubSeq(nodes, 1, at) \o span \o SubSeq(nodes, at + 1, Len(nodes))

\* el.matches("p, li, div.HyperMD-list-line")
IsContainer(node) ==
    /\ node.kind = "elem"
    /\ \/ node.tag \in {"P", "LI"}
       \/ node.tag = "DIV" /\ node.cls = "HyperMD-list-line"

\* The containers of process(el), el being the first node: the places of the
\* container elements in document order.
Containers(nodes) ==
    IF IsContainer(nodes[1]) THEN <<1>>
    ELSE LET all == {i \in 2..Len(nodes) : IsContainer(nodes[i])}
             ordered[n \in 0..Cardinality(all)] ==
                 IF n = 0 THEN <<>>
                 ELSE Append(ordered[n - 1],
                             CHOOSE i \in all :
                                 Cardinality({j \in all : j < i}) = n - 1)
         IN  ordered[Cardinality(all)]

(***************************************************************************)
(* The rendered note: Obsidian renders an element and calls process on it, *)
(* and may call process on it again.  process runs to its end before       *)
(* anything else happens; pc is the place it has reached.                  *)
(***************************************************************************)
MaxPasses == 3

Idle == [phase |-> "idle", k |-> 0, ranges |-> <<>>, hints |-> <<>>]

\* `settings` is a free identifier of process: the build decides whether the
\* name resolves; when it does, the user decides on the hints.
SettingsChoices ==
    {[resolves |-> FALSE, showCalorieHints |-> FALSE],
     [resolves |-> TRUE, showCalorieHints |-> FALSE],
     [resolves |-> TRUE, showCalorieHints |-> TRUE]}

CacheChoices ==
    {[f \in {<<"x">>} |-> ReturnsNull],
     [f \in {<<"x">>} |-> Returns([k \in {"calories"} |-> 20000])]}

\* The children a container of the catalog is made of, as nodes at depth 1.
FoodLogHeadingItem ==
    <<TextNode(1, <<"#", "#", " ", "F", "o", "o", "d", " ", "L", "o", "g">>),
      Element(1, "BR", "")>>

HeadingItems ==
    { FoodLogHeadingItem,
      <<TextNode(1, <<"#", "#", "f", "o", "o", "d", " ", "l", "o", "g", "\n">>)>>,
      <<TextNode(1, <<"#", " ", "A", "\n">>)>> }

LinkX == [Element(1, "A", LinkClass) EXCEPT !.hasHref = TRUE, !.href = <<"x">>]

\* A reference to a note whose name ends in a nutrient value.
LinkB == [Element(1, "A", LinkClass) EXCEPT
              !.hasHref = TRUE, !.href = <<"b", " ", "7", "f", "a", "t">>]

BodyItems ==
    { <<LinkX, TextNode(2, <<"x">>), TextNode(1, <<" ", "5", "g">>)>>,
      <<TextNode(1, <<"[", "[", "x", "]", "]", " ", "5", "g", "7", "f", "a", "t">>)>>,
      <<TextNode(1, <<"[", "[", "1", " ", "7", "f", "a", "t", "]", "]", " ", "1", "c", "u", "p", "s">>)>>,
      <<TextNode(1, <<"[", "[", "5", "f", "a", "t", "]", "]", " ", "5", "c", "u", "p", "s">>)>>,
      <<Element(1, "STRONG", ""), TextNode(2, <<"a", " ", "7", "k">>),
        TextNode(1, <<"c", "a", "l">>)>>,
      <<Element(1, "BR", "")>>,
      <<Element(1, "SPAN", HintClass), TextNode(2, <<" ", "9", "k", "c", "a", "l">>)>>,
      <<Element(1, "A", TagClass), TextNode(2, <<"#", "t">>)>>,
      <<TextNode(1, <<"[", "[", "5", " ">>),
        Element(1, "A", TagClass), TextNode(2, <<"#", "t">>),
        TextNode(1, <<"]", "]", " ", "5", "c", "u", "p", "s">>)>>,
      <<TextNode(1, <<"a", " ", "7", "k">>),
        Element(1, "EM", ""), TextNode(2, <<"c">>),
        TextNode(1, <<"a", "l", " ", "b">>)>>,
      <<TextNode(1, <<"a", " ", "3", "k", "c", "a", "l", " ">>),
        LinkB, TextNode(2, <<"b", " ", "7", "f", "a", "t">>)>> }

\* The nodes moved d levels down.
Deeper(nodes, d) == [i \in 1..Len(nodes) |-> [nodes[i] EXCEPT !.depth = @ + d]]

\* A block with a list item that holds the heading as text and, after it, a
\* paragraph with an entry; next to the item a paragraph without a heading,
\* with a wrapper and a hint in it.
NestedContainers ==
    <<Element(0, "DIV", ""),
      Element(1, "LI", ""),
      TextNode(2, <<"#", "#", "f", "o", "o", "d", " ", "l", "o", "g", "\n">>),
      Element(2, "P", ""),
      TextNode(3, <<"a", " ", "7", "k", "c", "a", "l">>),
      Element(1, "P", ""),
      TextNode(2, <<"b", " ">>),
      Element(2, "SPAN", NutritionValueClass),
      TextNode(3, <<"3", "k", "c", "a", "l">>),
      Element(2, "SPAN", HintClass),
      TextNode(3, <<" ", "9", "k", "c", "a", "l">>)>>

\* A paragraph with two linked entries on one line.
TwoEntriesOnALine ==
    <<Element(0, "P", "")>> \o FoodLogHeadingItem
    \o <<LinkX, TextNode(2, <<"x">>), TextNode(1, <<" ", "5", "g", " ">>),
         LinkX, TextNode(2, <<"x">>), TextNode(1, <<" ", "2", "g">>)>>

\* The trees Obsidian hands to process: a paragraph of a heading and one or
\* two items; a list item holding such a paragraph (the render hands over the
\* enclosing block, and both the item and the paragraph are containers); and a
\* block with no container in it.
TreeCatalog ==
    {<<Element(0, "P", "")>> \o h \o b : h \in HeadingItems, b \in BodyItems}
    \cup {<<Element(0, "P", "")>> \o FoodLogHeadingItem \o b1 \o b2 :
             b1 \in BodyItems, b2 \in BodyItems}
    \cup {<<Element(0, "DIV", ""), Element(1, "LI", ""), Element(2, "P", "")>>
          \o Deeper(FoodLogHeadingItem \o b, 2) : b \in BodyItems}
    \cup {<<Element(0, "DIV", "")>> \o FoodLogHeadingItem \o b : b \in BodyItems}
    \cup {NestedContainers, TwoEntriesOnALine}

\* The body of the loop over the containers from the k-th on, up to the call
\* of wrapTextAtPosition for the first range: the state process is in then,
\* or at its end.  A container that does not qualify is passed over.
RECURSIVE EnterContainer(_, _, _, _)
EnterContainer(nodes, k, set, nutrients) ==
    IF k > Len(Containers(nodes))
    THEN [tree |-> nodes, pc |-> Idle, text |-> <<>>, raised |-> FALSE]
    ELSE
        LET container == Containers(nodes)[k]
            reconstructedText == reconstructMarkdownText(nodes, container)
        IN  IF reconstructedText = <<>> \/ ~containsRelevantTags(reconstructedText)
            THEN EnterContainer(nodes, k + 1, set, nutrients)
            ELSE IF ~set.resolves
            THEN [tree |-> nodes, pc |-> Idle, text |-> <<>>, raised |-> TRUE]
            ELSE [tree |-> UnwrapAll(nodes, container),
                  pc |-> [phase |-> "wrap", k |-> k,
                          ranges |-> SortByStartDescending(
                                         extractMultilineHighlightRanges(reconstructedText, 0)),
                          hints |-> IF set.showCalorieHints
                                    THEN extractInlineCalorieAnnotations(
                                             reconstructedText, 0, nutrients)
                                    ELSE <<>>],
                  text |-> reconstructedText,
                  raised |-> FALSE]

\* process returns, or throws, when pc comes back to Idle.
Arrive(next) ==
    /\ tree' = next.tree
    /\ pc' = next.pc
    /\ passText' = next.text
    /\ raised' = next.raised
    /\ passes' = IF next.pc = Idle THEN passes + 1 ELSE passes
    /\ stable' = IF next.pc = Idle THEN stable + 1 ELSE stable

Init ==
    /\ tree \in TreeCatalog
    /\ settings \in SettingsChoices
    /\ nutrientCache \in CacheChoices
    /\ pc = Idle
    /\ passText = <<>>
    /\ treeBefore = tree
    /\ passes = 0
    /\ stable = 0
    /\ raised = FALSE
    /\ doc = <<>>
    /\ vpFrom = 0
    /\ vpTo = 0
    /\ secLines = <<>>
    /\ hlRanges = <<>>
    /\ showCalorieHints = FALSE
    /\ annotations = <<>>
    /\ content = <<>>
    /\ store = <<>>
    /\ goals = <<>>
    /\ calcResult = <<>>
    /\ readErrors = <<>>
    /\ NoAsync

\* process(el, ctx) is called.
Process ==
    /\ pc = Idle
    /\ passes < MaxPasses
    /\ treeBefore' = tree
    /\ Arrive(EnterContainer(tree, 1, settings, nutrientCache))
    /\ UNCHANGED <<settings, nutrientCache>>
    /\ UNCHANGED <<editorVars, calcVars, asyncVars>>

\* One turn of the loop of highlightMatches.
Wrap ==
    /\ pc.phase = "wrap"
    /\ pc.ranges # <<>>
    /\ LET range == Head(pc.ranges)
       IN  tree' = wrapTextAtPosition(tree, Containers(tree)[pc.k], range.start, range.end,
                                      getClassNameForType(range.type))
    /\ pc' = [pc EXCEPT !.ranges = Tail(pc.ranges)]
    /\ UNCHANGED <<settings, nutrientCache, passText, treeBefore, passes, stable, raised>>
    /\ UNCHANGED <<editorVars, calcVars, asyncVars>>

\* highlightMatches has returned: the hints of earlier passes are removed.
ClearHints ==
    /\ pc.phase = "wrap"
    /\ pc.ranges = <<>>
    /\ tree' = RemoveHints(tree, Containers(tree)[pc.k])
    /\ pc' = [pc EXCEPT !.phase = "hints"]
    /\ UNCHANGED <<settings, nutrientCache, passText, treeBefore, passes, stable, raised>>
    /\ UNCHANGED <<editorVars, calcVars, asyncVars>>

\* One turn of the loop over hintPositions.
PlaceHint ==
    /\ pc.phase = "hints"
    /\ pc.hints # <<>>
    /\ tree' = InsertHint(tree, Containers(tree)[pc.k],
                          Head(pc.hints).position, Head(pc.hints).text)
    /\ pc' = [pc EXCEPT !.hints = Tail(pc.hints)]
    /\ UNCHANGED <<settings, nutrientCache, passText, treeBefore, passes, stable, raised>>
    /\ UNCHANGED <<editorVars, calcVars, asyncVars>>

\* The loop over the containers goes on, or process returns.
NextContainer ==
    /\ pc.phase = "hints"
    /\ pc.hints = <<>>
    /\ Arrive(EnterContainer(tree, pc.k + 1, settings, nutrientCache))
    /\ UNCHANGED <<settings, nutrientCache, treeBefore>>
    /\ UNCHANGED <<editorVars, calcVars, asyncVars>>

\* The user switches the hints on or off between two calls of process.
SettingsChange ==
    /\ pc = Idle
    /\ settings.resolves
    /\ settings' = [settings EXCEPT !.showCalorieHints = ~@]
    /\ stable' = 0
    /\ UNCHANGED <<tree, nutrientCache, pc, passText, treeBefore, passes, raised>>
    /\ UNCHANGED <<editorVars, calcVars, asyncVars>>

Next ==
    \/ Process
    \/ Wrap
    \/ ClearHints
    \/ PlaceHint
    \/ NextContainer
    \/ SettingsChange

Spec == Init /\ [][Next]_vars

(***************************************************************************)
(* Claims on the reading view.                                             *)
(***************************************************************************)
\* The container process is working on.
container == Containers(tree)[pc.k]

WrapperClasses == {ValueClass, NutritionValueClass}

\* A wrapper element lies inside another wrapper element.
NestedWrapper(nodes) ==
    \E i \in 1..Len(nodes) :
        /\ nodes[i].kind = "elem" /\ nodes[i].cls \in WrapperClasses
        /\ InsideOneOf(nodes, i, {w \in 1..Len(nodes) :
                                     nodes[w].kind = "elem" /\ nodes[w].cls \in WrapperClasses})

\* Whether process takes up the container c.
Qualifies(nodes, c) ==
    LET text == reconstructMarkdownText(nodes, c)
    IN  text # <<>> /\ containsRelevantTags(text)

\* A container process takes up holds more hint nodes than its text has
\* annotations (none when the hints are switched off).
DuplicatedHint(nodes) ==
    \E i \in 1..Len(Containers(nodes)) :
        LET c == Containers(nodes)[i]
            text == reconstructMarkdownText(nodes, c)
        IN  /\ Qualifies(nodes, c)
            /\ Cardinality(QuerySelectorAll(nodes, c, {HintClass}))
                   > (IF settings.showCalorieHints
                      THEN Len(extractInlineCalorieAnnotations(text, 0, nutrientCache))
                      ELSE 0)

\* C1: with the settings and the cache unchanged, a second call of process
\* that runs to its end leaves the tree as the first call left it, with no
\* wrapper inside a wrapper and no hint node more than the annotations call
\* for.
C1_PassIdempotent ==
    (pc = Idle /\ stable >= 2 /\ ~raised) =>
        /\ tree = treeBefore
        /\ ~NestedWrapper(tree)
        /\ ~DuplicatedHint(tree)

\* C2: the text reconstructed from the container stays what it was when the
\* pass entered the container: after the unwrapping of highlightMatches, after
\* each call of wrapTextAtPosition, after the removal of the hints and after
\* each insertion of a hint.
C2_TextPreserved ==
    pc # Idle => reconstructMarkdownText(tree, container) = passText

(***************************************************************************)
(* Claims on the names handed to the lookup.                               *)
(***************************************************************************)
\* C12: for every linked entry of the section, the name the aggregator hands
\* to the lookup is the reference without the alias after "|", without the
\* anchor after "#" and cut to its last path segment, which is the name the
\* annotation extraction asks for.
C12_LookupKeyNormalised ==
    \A entries \in {linkedEntries} :
        \A i \in 1..Len(entries) :
            LookupKey(entries[i]) = NormalizeFileName(entries[i].filename)

(***************************************************************************)
(* Claims on the calorie annotations, under SpecHints.                     *)
(***************************************************************************)
\* The linked matches of the section lines from the k-th on, in the order of
\* the lines and, within a line, from left to right.
RECURSIVE MatchesOfLines(_, _)
MatchesOfLines(lines, k) ==
    IF k > Len(lines) THEN <<>>
    ELSE [j \in 1..Len(LinkedMatches(lines[k].line, 0)) |->
             [line |-> k, match |-> LinkedMatches(lines[k].line, 0)[j]]]
         \o MatchesOfLines(lines, k + 1)

\* What the lookup answers for the reference of a linked match, and the
\* calories of the match: multiplier(quantity, unit, servingSize) times the
\* calories per 100.
CaloriesPerHundredOf(m) == getCaloriesForFood(nutrientCache, NormalizeFileName(m.g1))

CaloriesOf(m) ==
    Times(getUnitMultiplier(parseFloat(m.g2), m.g3,
                            getServingSize(nutrientCache, NormalizeFileName(m.g1))),
          CaloriesPerHundredOf(m)[1])

\* The conditions under which a linked match is due an annotation.
Accepted(m) ==
    /\ parseFloat(m.g2) > 0
    /\ NormalizeFileName(m.g1) # <<>>
    /\ CaloriesPerHundredOf(m) # <<>>
    /\ CaloriesOf(m) >= 0

AcceptedEntry(c) == Accepted(c.match)

\* The accepted linked matches of the section lines of the visible text.
acceptedMatches == SelectSeq(MatchesOfLines(secLines, 1), AcceptedEntry)

\* text is the decimal digits of a whole number, then "kcal".
IsKcalText(text) ==
    /\ Len(text) > 4
    /\ SubSeq(text, Len(text) - 3, Len(text)) = <<"k", "c", "a", "l">>
    /\ \A i \in 1..(Len(text) - 4) : text[i] \in Digits
    /\ (Len(text) > 5 => text[1] # "0")

\* The whole number such a text shows.
KcalNumber(text) == DigitsValue(SubSeq(text, 1, Len(text) - 4))

\* C19: there is one annotation for each linked match whose quantity is
\* above 0, whose normalised reference is not empty, for which the lookup
\* answers calories per 100 and whose calories are not negative, and none for
\* any other match; its text is the calories rounded to the nearest whole
\* number, which is not negative, followed by "kcal".
C19_AnnotationEmission ==
    showCalorieHints =>
        \A accepted \in {acceptedMatches} :
            /\ Len(annotations) = Len(accepted)
            /\ \A i \in 1..Len(annotations) :
                   /\ IsKcalText(annotations[i].text)
                   /\ \A r \in {KcalNumber(annotations[i].text)} :
                          /\ r >= 0
                          /\ 100 * r - 50 <= CaloriesOf(accepted[i].match)
                          /\ CaloriesOf(accepted[i].match) < 100 * r + 50

\* C19: an annotation shows calories rounded up from a half, while the
\* section also holds a match with quantity 0 and a match whose calories are
\* negative, which get none.
C19_Witness ==
    /\ showCalorieHints
    /\ \E i \in 1..Len(annotations) : annotations[i].text = <<"1", "1", "k", "c", "a", "l">>
    /\ \E i \in 1..Len(acceptedMatches) : CaloriesOf(acceptedMatches[i].match) = 1050
    /\ \E j \in 1..Len(MatchesOfLines(secLines, 1)) :
           parseFloat(MatchesOfLines(secLines, 1)[j].match.g2) = 0
    /\ \E j \in 1..Len(MatchesOfLines(secLines, 1)) :
           LET m == MatchesOfLines(secLines, 1)[j].match
           IN  /\ parseFloat(m.g2) > 0
               /\ CaloriesPerHundredOf(m) # <<>>
               /\ CaloriesOf(m) < 0

\* The offset in the document of the end of the k-th section line of the
\* visible text.
LineEndInDocument(k) == vpFrom + secLines[k].offset + Len(secLines[k].line)

\* C20: the annotation of an accepted match stands at startOffset plus the
\* offset of the end of the section line holding the match, which is the end
\* of that line in the document; the annotations of one line stand at the
\* same position in the order of their matches from left to right, after the
\* annotations of every earlier line.
C20_AnnotationPositionAndOrder ==
    showCalorieHints =>
        \A accepted \in {acceptedMatches} :
            /\ Len(annotations) = Len(accepted)
            /\ \A i \in 1..Len(annotations) :
                   \A p \in {annotations[i].position} :
                       /\ p = LineEndInDocument(accepted[i].line)
                       /\ p <= Len(doc)
                       /\ (p < Len(doc) => doc[p + 1] = NL)
                       /\ p >= Len(secLines[accepted[i].line].line)
                       /\ SubSeq(doc, p - Len(secLines[accepted[i].line].line) + 1, p)
                              = secLines[accepted[i].line].line
                       /\ IsKcalText(annotations[i].text)
                       /\ KcalNumber(annotations[i].text) * 100
                              \in (CaloriesOf(accepted[i].match) - 50)..(CaloriesOf(accepted[i].match) + 50)
            /\ \A i, j \in 1..Len(annotations) :
                   i < j => annotations[i].position <= annotations[j].position

\* C20: the visible text starts after the first line of the document, and a
\* line with two accepted matches carries their two annotations at its end,
\* the left match's first.
C20_Witness ==
    /\ showCalorieHints
    /\ vpFrom > 0
    /\ \E i \in 1..(Len(annotations) - 1) :
           /\ annotations[i].position = annotations[i + 1].position
           /\ annotations[i].text = <<"1", "1", "k", "c", "a", "l">>
           /\ annotations[i + 1].text = <<"3", "0", "k", "c", "a", "l">>
           /\ acceptedMatches[i].line = acceptedMatches[i + 1].line
           /\ acceptedMatches[i].match.index < acceptedMatches[i + 1].match.index

\* The ranges highlightMatches computes from the text of the pass, in the order
\* in which it applies them, and those it has applied so far.
rangesSorted == SortByStartDescending(extractMultilineHighlightRanges(passText, 0))

rangesApplied == SubSeq(rangesSorted, 1, Len(rangesSorted) - Len(pc.ranges))

\* The text reconstructed from the nodes of the container c that come before
\* node i: the logical offset of node i is its length.
TextBeforeNode(nodes, c, i) == reconstructMarkdownText(SubSeq(nodes, 1, i - 1), c)

\* The characters of the text that the range r designates.
CharactersOf(text, r) == SubSeq(text, r.start + 1, Min(r.end, Len(text)))

\* C23: the ranges are applied in non-increasing order of start; the text at
\* the offsets of every range not yet applied is what it was when the pass
\* reconstructed the text; and every wrapper of the container stands at the
\* start of a range that was applied, has the class of its type and holds the
\* characters of that range in the text reconstructed before any wrapping.
C23_DescendingOrderKeepsOffsets ==
    (pc # Idle /\ pc.phase = "wrap") =>
        \A sorted \in {rangesSorted} :
            /\ \A i, j \in 1..Len(sorted) : i < j => sorted[i].start >= sorted[j].start
            /\ pc.ranges = SubSeq(sorted, Len(sorted) - Len(pc.ranges) + 1, Len(sorted))
            /\ \A text \in {reconstructMarkdownText(tree, container)} :
                   \A n \in 1..Len(pc.ranges) :
                       CharactersOf(text, pc.ranges[n]) = CharactersOf(passText, pc.ranges[n])
            /\ \A w \in QuerySelectorAll(tree, container, WrapperClasses) :
                   \E n \in 1..(Len(sorted) - Len(pc.ranges)) :
                       /\ tree[w].cls = getClassNameForType(sorted[n].type)
                       /\ Len(TextBeforeNode(tree, container, w)) = sorted[n].start
                       /\ textContent(tree, w) = CharactersOf(passText, sorted[n])

\* The pass has reached the end of its work on the container.
AtEndOfContainer == pc # Idle /\ pc.phase = "hints" /\ pc.hints = <<>>

\* The annotations the pass computed for the container.
annotationsOfPass ==
    IF settings.showCalorieHints
    THEN extractInlineCalorieAnnotations(passText, 0, nutrientCache)
    ELSE <<>>

\* The hint nodes of the container.
hintNodes == QuerySelectorAll(tree, container, {HintClass})

\* C24: at the end of the pass over a container, the container holds one hint
\* node for each annotation computed in the pass, with the text of the
\* annotation after a space, and no other hint node; with the calorie hints
\* switched off it holds none.
C24_HintsReplaced ==
    AtEndOfContainer =>
        \A computed \in {annotationsOfPass} : \A hints \in {hintNodes} :
            /\ Cardinality(hints) = Len(computed)
            /\ \A h \in hints :
                   \E n \in 1..Len(computed) :
                       textContent(tree, h) = <<" ">> \o computed[n].text
            /\ \A n \in 1..Len(computed) :
                   Cardinality({h \in hints : textContent(tree, h) = <<" ">> \o computed[n].text})
                       = Cardinality({m \in 1..Len(computed) : computed[m].text = computed[n].text})
            /\ ~settings.showCalorieHints => hints = {}

\* C24: the container came to the pass with a hint node of an earlier pass,
\* and at the end of the pass it holds the hint of the one annotation computed
\* in the pass and nothing of the earlier one.
C24_Witness ==
    /\ AtEndOfContainer
    /\ settings.showCalorieHints
    /\ \E i \in 1..Len(treeBefore) :
           /\ treeBefore[i].kind = "elem" /\ treeBefore[i].cls = HintClass
           /\ textContent(treeBefore, i) = <<" ", "9", "k", "c", "a", "l">>
    /\ Len(annotationsOfPass) = 1
    /\ \A h \in hintNodes : textContent(tree, h) = <<" ", "1", "0", "k", "c", "a", "l">>
    /\ Cardinality(hintNodes) = 1

\* C25: no call of process ends by throwing to the render that called it:
\* an error raised by a step of the pass (here the read of `settings`, which
\* stands for nothing) is caught inside process, and the tree is then as it
\* was before the call.
C25_ErrorsContained ==
    (pc = Idle /\ passes > 0) => ~raised

\* Node i is an element of one of the wrapper kinds findInsertionPoint stops at.
IsWrapperNode(nodes, i) ==
    /\ nodes[i].kind = "elem"
    /\ nodes[i].cls \in {ValueClass, NutritionValueClass, NegativeKcalClass}

\* Node i and its ancestors inside the container c.
AncestorsOrSelf(nodes, c, i) == {j \in (c + 1)..i : i <= SubtreeEnd(nodes, j)}

\* The nearest wrapper among node i and its ancestors inside the container,
\* node i itself when there is none.
NearestWrapperOrSelf(nodes, c, i) ==
    LET wrappers == {j \in AncestorsOrSelf(nodes, c, i) : IsWrapperNode(nodes, j)}
    IN  IF wrappers = {} THEN i ELSE CHOOSE j \in wrappers : \A k \in wrappers : k <= j

\* Some hint node of the container c is a descendant of a wrapper element.
HintInsideWrapper(nodes, c) ==
    \E h \in QuerySelectorAll(nodes, c, {HintClass}) :
        \E j \in AncestorsOrSelf(nodes, c, h) : IsWrapperNode(nodes, j)

\* The tree after differs from the tree before by one hint element with the
\* text hintText after a space, standing as the next sibling of node a.
HintInsertedAfter(before, after, a, hintText) ==
    \A h \in {SubtreeEnd(before, a) + 1} :
        /\ Len(after) = Len(before) + 2
        /\ SubSeq(after, 1, h - 1) = SubSeq(before, 1, h - 1)
        /\ after[h] = Element(before[a].depth, "SPAN", HintClass)
        /\ after[h + 1] = TextNode(before[a].depth + 1, <<" ">> \o hintText)
        /\ SubSeq(after, h + 2, Len(after)) = SubSeq(before, h, Len(before))

\* C26: every hint is inserted once the ranges of the container are all
\* applied, as the next sibling of the nearest wrapper element among the
\* ancestors of the node its position maps to, or of that node itself when it
\* has no wrapper ancestor; no hint node of the container is then a descendant
\* of a wrapper element.
C26_HintPlacement ==
    [][(pc # Idle /\ pc.phase = "hints" /\ pc.hints # <<>>) =>
           /\ pc.ranges = <<>>
           /\ HintInsertedAfter(
                  tree, tree',
                  NearestWrapperOrSelf(
                      tree, container,
                      findInsertionNodeAtPosition(tree, container, Head(pc.hints).position)),
                  Head(pc.hints).text)
           /\ ~HintInsideWrapper(tree', Containers(tree')[pc.k])]_vars

\* C26: a hint node stands right after a wrapper element the pass has made,
\* as its next sibling, the position of its annotation mapping to the text
\* the wrapper holds.
C26_Witness ==
    /\ pc # Idle /\ pc.phase = "hints" /\ pc.hints = <<>>
    /\ \E w \in QuerySelectorAll(tree, container, {ValueClass}) :
           /\ SubtreeEnd(tree, w) + 1 \in hintNodes
           /\ tree[SubtreeEnd(tree, w) + 1].depth = tree[w].depth
           /\ Len(TextBeforeNode(tree, container, w)) + Len(textContent(tree, w))
                  = annotationsOfPass[1].position

\* How far past the end of the text the offsets of the lookup are taken.
MaxPastEnd == 2

\* Node i of the container c contributes characters to the reconstructed
\* text: a text node, a linked reference, a tag or a line break that lies in
\* no hint, linked reference or tag.
IsContributing(nodes, c, i) ==
    /\ \/ nodes[i].kind = "text"
       \/ nodes[i].kind = "elem" /\ nodes[i].cls \in {LinkClass, TagClass}
       \/ nodes[i].kind = "elem" /\ nodes[i].cls # HintClass /\ nodes[i].tag = "BR"
    /\ \A j \in AncestorsOrSelf(nodes, c, i) \ {i} :
           nodes[j].cls \notin {HintClass, LinkClass, TagClass}

\* The interval of logical offsets a contributing node occupies.
IntervalStart(nodes, c, i) == Len(TextBeforeNode(nodes, c, i))

IntervalEnd(nodes, c, i) == Len(TextBeforeNode(nodes, c, i + 1 + (SubtreeEnd(nodes, i) - i)))

\* The least of a set of nodes that is not empty.
FirstOf(S) == CHOOSE i \in S : \A j \in S : i <= j

\* The contributing nodes of the container c, and the start and the end of
\* the interval of each.
Contributing(nodes, c) ==
    {i \in (c + 1)..SubtreeEnd(nodes, c) : IsContributing(nodes, c, i)}

IntervalStarts(nodes, c) ==
    [i \in Contributing(nodes, c) |-> IntervalStart(nodes, c, i)]

IntervalEnds(nodes, c) ==
    [i \in Contributing(nodes, c) |-> IntervalEnd(nodes, c, i)]

\* The offsets the lookup is asked about: those of the text and a few more.
Offsets(nodes, c) == 0..(Len(reconstructMarkdownText(nodes, c)) + MaxPastEnd)

\* C27, as claimed: findInsertionNodeAtPosition returns the first contributing
\* node whose interval has start <= p < end, or start <= p <= end for a line
\* break or another atomic node; the last child of the container when there
\* is no such node.
C27_HalfOpenLookup ==
    (pc # Idle /\ pc.phase = "hints") =>
        \A start \in {IntervalStarts(tree, container)} :
        \A end \in {IntervalEnds(tree, container)} :
            \A p \in Offsets(tree, container) :
                \A holding \in {{i \in DOMAIN end :
                                   /\ start[i] <= p
                                   /\ IF tree[i].kind = "text" THEN p < end[i]
                                      ELSE p <= end[i]}} :
                    findInsertionNodeAtPosition(tree, container, p) =
                        IF holding # {} THEN FirstOf(holding) ELSE LastChild(tree, container)

\* C27, amended: findInsertionNodeAtPosition returns the first contributing
\* node whose interval ends at p or after it (start <= p <= end, for a text
\* node as for an atomic one, so that an offset on the boundary of two nodes
\* maps to the earlier one); the last child of the container when p exceeds
\* every interval; hence a node for every p when the container has a child.
C27_ClosedIntervalLookup ==
    (pc # Idle /\ pc.phase = "hints") =>
        \A start \in {IntervalStarts(tree, container)} :
        \A end \in {IntervalEnds(tree, container)} :
            \A p \in Offsets(tree, container) :
                \A reaching \in {{i \in DOMAIN end : p <= end[i]}} :
                    /\ findInsertionNodeAtPosition(tree, container, p) =
                           IF reaching # {} THEN FirstOf(reaching)
                           ELSE LastChild(tree, container)
                    /\ reaching # {} => start[FirstOf(reaching)] <= p
                    /\ findInsertionNodeAtPosition(tree, container, p) \in
                           (container + 1)..SubtreeEnd(tree, container)

\* C27: a hint has been placed by an offset that lies on the boundary of a
\* text node and the contributing node after it, and maps to the text node;
\* an offset past the end of the text maps to the last child.
C27_Witness ==
    /\ pc # Idle /\ pc.phase = "hints" /\ pc.hints = <<>>
    /\ annotationsOfPass # <<>>
    /\ hintNodes # {}
    /\ \E t, n \in (container + 1)..SubtreeEnd(tree, container) :
           /\ tree[t].kind = "text" /\ IsContributing(tree, container, t)
           /\ t < n /\ IsContributing(tree, container, n)
           /\ IntervalEnd(tree, container, t) = annotationsOfPass[1].position
           /\ IntervalStart(tree, container, n) = annotationsOfPass[1].position
           /\ IntervalStart(tree, container, t) < annotationsOfPass[1].position
           /\ findInsertionNodeAtPosition(tree, container, annotationsOfPass[1].position) = t
    /\ findInsertionNodeAtPosition(tree, container,
                                   Len(reconstructMarkdownText(tree, container)) + 1)
           = LastChild(tree, container)

\* What a contributing node adds to the reconstructed text.
ContributionOf(nodes, i) ==
    IF nodes[i].kind = "text" THEN nodes[i].text
    ELSE IF nodes[i].cls = LinkClass
    THEN <<"[", "[">> \o (IF nodes[i].hasHref THEN nodes[i].href ELSE textContent(nodes, i))
                      \o <<"]", "]">>
    ELSE IF nodes[i].cls = TagClass THEN textContent(nodes, i)
    ELSE <<NL>>

\* The contributions of the contributing nodes among nodes i..last of the
\* container c, in document order.
RECURSIVE ContributionsFrom(_, _, _, _)
ContributionsFrom(nodes, c, i, last) ==
    IF i > last THEN <<>>
    ELSE (IF IsContributing(nodes, c, i) THEN ContributionOf(nodes, i) ELSE <<>>)
         \o ContributionsFrom(nodes, c, i + 1, last)

\* C28: the text reconstructed from a container is the concatenation, in
\* document order, of the text of every text node, "[[target]]" for every
\* linked reference (its stored target, else its visible text), the visible
\* text of every tag and a newline for every line break, leaving out all that
\* lies in a hint, a linked reference or a tag; every node after a skipped
\* subtree counts once.
C28_ReconstructionRules ==
    /\ \A k \in 1..Len(Containers(tree)) :
           \A c \in {Containers(tree)[k]} :
               reconstructMarkdownText(tree, c)
                   = ContributionsFrom(tree, c, c + 1, SubtreeEnd(tree, c))
    /\ (pc # Idle /\ pc.phase = "wrap" /\ pc.ranges = rangesSorted) =>
           passText = ContributionsFrom(tree, container, container + 1,
                                        SubtreeEnd(tree, container))

\* C28: process has reconstructed the text of a container in which a hint
\* node with its text is followed by a linked reference with a stored target
\* and a text node: the text is the heading line and "[[x]] 5g".
C28_Witness ==
    /\ pc # Idle /\ pc.phase = "wrap" /\ pc.ranges = rangesSorted
    /\ \E h \in hintNodes :
           /\ SubtreeEnd(tree, h) > h
           /\ SubtreeEnd(tree, h) + 1 <= SubtreeEnd(tree, container)
           /\ tree[SubtreeEnd(tree, h) + 1].cls = LinkClass
           /\ tree[SubtreeEnd(tree, h) + 1].hasHref
    /\ passText = <<"#", "#", " ", "F", "o", "o", "d", " ", "L", "o", "g", "\n",
                    "[", "[", "x", "]", "]", " ", "5", "g">>

\* The text nodes of the container c that the range [startPos, endPos)
\* overlaps: those that contribute characters of the range.
Overlapped(nodes, c, startPos, endPos) ==
    {i \in Contributing(nodes, c) :
        /\ nodes[i].kind = "text"
        /\ IntervalEnd(nodes, c, i) > startPos
        /\ IntervalStart(nodes, c, i) < endPos}

\* The part of the text node i of the container c before the range, in the
\* range and after the range.
PrefixOf(nodes, c, i, startPos) ==
    SubSeq(nodes[i].text, 1, Max(0, startPos - IntervalStart(nodes, c, i)))

SliceOf(nodes, c, i, startPos, endPos) ==
    SubSeq(nodes[i].text, Max(0, startPos - IntervalStart(nodes, c, i)) + 1,
           Min(Len(nodes[i].text), endPos - IntervalStart(nodes, c, i)))

SuffixOf(nodes, c, i, endPos) ==
    SubSeq(nodes[i].text, Min(Len(nodes[i].text), endPos - IntervalStart(nodes, c, i)) + 1,
           Len(nodes[i].text))

\* A text node at depth d unless s is empty.
TextUnlessEmpty(d, s) == IF s = <<>> THEN <<>> ELSE <<TextNode(d, s)>>

\* A wrapper of class className with the text s, at depth d.
WrapperWith(d, className, s) ==
    <<Element(d, "SPAN", className), TextNode(d + 1, s)>>

\* C29: a turn of the loop of highlightMatches whose range overlaps exactly
\* one text node replaces that node, in place, by the prefix as a text node
\* (none when empty), one wrapper of the range's class with the overlapped
\* slice as its text, and the suffix as a text node (none when empty); all
\* other nodes stay as they are and where they are.
C29_SingleNodeWrap ==
    [][(pc # Idle /\ pc.phase = "wrap" /\ pc.ranges # <<>>) =>
           \A r \in {Head(pc.ranges)} :
           \A over \in {Overlapped(tree, container, r.start, r.end)} :
               Cardinality(over) = 1 =>
                   \A n \in over :
                       tree' = SubSeq(tree, 1, n - 1)
                               \o TextUnlessEmpty(tree[n].depth,
                                                  PrefixOf(tree, container, n, r.start))
                               \o WrapperWith(tree[n].depth, getClassNameForType(r.type),
                                              SliceOf(tree, container, n, r.start, r.end))
                               \o TextUnlessEmpty(tree[n].depth,
                                                  SuffixOf(tree, container, n, r.end))
                               \o SubSeq(tree, n + 1, Len(tree))]_vars

\* C29: a range has just been applied inside one text node: its wrapper holds
\* the characters of the range and stands between a text node with the prefix
\* and a text node with the suffix, both at the wrapper's depth.
C29_Witness ==
    /\ pc # Idle /\ pc.phase = "wrap" /\ rangesApplied # <<>>
    /\ \E w \in (container + 2)..(SubtreeEnd(tree, container) - 2) :
           /\ IsWrapperNode(tree, w)
           /\ tree[w].cls = getClassNameForType(rangesApplied[Len(rangesApplied)].type)
           /\ textContent(tree, w) = CharactersOf(passText, rangesApplied[Len(rangesApplied)])
           /\ tree[w - 1].kind = "text" /\ tree[w - 1].depth = tree[w].depth
           /\ tree[w + 1].kind = "text" /\ tree[w + 1].depth = tree[w].depth + 1
           /\ tree[w + 2].kind = "text" /\ tree[w + 2].depth = tree[w].depth

\* The overlapping parts of the text nodes over among nodes k..last of the
\* container c, one after the other in document order.
RECURSIVE SlicesFrom(_, _, _, _, _, _, _)
SlicesFrom(nodes, c, k, last, over, startPos, endPos) ==
    IF k > last THEN <<>>
    ELSE (IF k \in over THEN SliceOf(nodes, c, k, startPos, endPos) ELSE <<>>)
         \o SlicesFrom(nodes, c, k + 1, last, over, startPos, endPos)

\* Nodes k.. of the tree without the nodes over, the node lastOver being
\* replaced by a text node with suffix (by nothing when suffix is empty).
RECURSIVE WithoutOverlapped(_, _, _, _, _)
WithoutOverlapped(nodes, k, over, lastOver, suffix) ==
    IF k > Len(nodes) THEN <<>>
    ELSE (IF k = lastOver THEN TextUnlessEmpty(nodes[k].depth, suffix)
          ELSE IF k \in over THEN <<>>
          ELSE <<nodes[k]>>)
         \o WithoutOverlapped(nodes, k + 1, over, lastOver, suffix)

\* The greatest of a set of nodes that is not empty.
LastOf(S) == CHOOSE i \in S : \A j \in S : i >= j

\* C30: a turn of the loop of highlightMatches whose range overlaps several
\* text nodes puts one wrapper where the first of them was, its text the
\* overlapping parts of these nodes in order; the prefix of the first stays
\* before the wrapper as a text node, the suffix of the last stays as a text
\* node where the last was, the overlapped nodes are gone and every other
\* node stays as it is and in its order.
C30_MultiNodeWrap ==
    [][(pc # Idle /\ pc.phase = "wrap" /\ pc.ranges # <<>>) =>
           \A r \in {Head(pc.ranges)} :
           \A over \in {Overlapped(tree, container, r.start, r.end)} :
               Cardinality(over) >= 2 =>
                   \A f \in {FirstOf(over)} : \A l \in {LastOf(over)} :
                       tree' = SubSeq(tree, 1, f - 1)
                               \o TextUnlessEmpty(tree[f].depth,
                                                  PrefixOf(tree, container, f, r.start))
                               \o WrapperWith(tree[f].depth, getClassNameForType(r.type),
                                              SlicesFrom(tree, container, f, l, over,
                                                         r.start, r.end))
                               \o WithoutOverlapped(tree, f + 1, over, l,
                                                    SuffixOf(tree, container, l, r.end))]_vars

\* C30: a range has just been applied across three text nodes, the middle one
\* in an element of its own: the wrapper holds the characters of the range,
\* the prefix of the first node comes before it, the element that held the
\* middle node follows it empty, and the suffix of the last node comes after.
C30_Witness ==
    /\ pc # Idle /\ pc.phase = "wrap" /\ rangesApplied # <<>>
    /\ \E w \in (container + 2)..(SubtreeEnd(tree, container) - 3) :
           /\ IsWrapperNode(tree, w)
           /\ tree[w - 1].kind = "text" /\ tree[w - 1].depth = tree[w].depth
           /\ SubtreeEnd(tree, w) = w + 1
           /\ Len(textContent(tree, w)) > 2
           /\ textContent(tree, w) = CharactersOf(passText, rangesApplied[Len(rangesApplied)])
           /\ tree[w + 2].kind = "elem" /\ tree[w + 2].tag = "EM"
           /\ SubtreeEnd(tree, w + 2) = w + 2
           /\ tree[w + 3].kind = "text" /\ tree[w + 3].depth = tree[w].depth

\* C31: a turn of the loop of highlightMatches whose range overlaps no text
\* node (the range lies past the text, or inside a linked reference or a tag)
\* raises nothing and leaves the tree as it is, and the loop goes on with the
\* ranges that remain.
C31_RangeWithoutNodeDropped ==
    [][(pc # Idle /\ pc.phase = "wrap" /\ pc.ranges # <<>>
        /\ Overlapped(tree, container, Head(pc.ranges).start, Head(pc.ranges).end) = {}) =>
           /\ tree' = tree
           /\ raised' = raised
           /\ pc' = [pc EXCEPT !.ranges = Tail(pc.ranges)]]_vars

\* C31: the first range of a pass lay inside a linked reference and was
\* dropped, the range after it has been applied: the reference is as it was,
\* and a wrapper holds the characters of the second range.
C31_Witness ==
    /\ pc # Idle /\ pc.phase = "wrap" /\ pc.ranges = <<>> /\ ~raised
    /\ Len(rangesSorted) = 2
    /\ \E l \in Contributing(tree, container) :
           /\ tree[l].cls = LinkClass
           /\ SubtreeEnd(tree, l) = l + 1 /\ tree[l + 1].kind = "text"
           /\ passText[rangesSorted[1].start + 1] = "7"
           /\ rangesSorted[1].end = Len(passText) - 2
    /\ \E w \in (container + 1)..SubtreeEnd(tree, container) :
           /\ IsWrapperNode(tree, w)
           /\ textContent(tree, w) = CharactersOf(passText, rangesSorted[2])
           /\ textContent(tree, w) = <<"3", "k", "c", "a", "l">>

\* The container c and all that lies in it.
SubtreeOf(nodes, c) == SubSeq(nodes, c, SubtreeEnd(nodes, c))

\* One of the containers a and b lies in the other.
Nested(nodes, a, b) ==
    \/ a < b /\ b <= SubtreeEnd(nodes, a)
    \/ b < a /\ a <= SubtreeEnd(nodes, b)

\* The containers that do not qualify: all of them, and those that neither
\* lie in a qualifying container nor hold one.
NotQualifying(nodes) ==
    {j \in 1..Len(Containers(nodes)) : ~Qualifies(nodes, Containers(nodes)[j])}

NotQualifyingApart(nodes) ==
    {j \in NotQualifying(nodes) :
        \A k \in 1..Len(Containers(nodes)) :
            Nested(nodes, Containers(nodes)[j], Containers(nodes)[k]) =>
                ~Qualifies(nodes, Containers(nodes)[k])}

\* The containers js of the tree are after a step what they were before it.
LeftUnmodified(js) ==
    /\ Len(Containers(tree')) = Len(Containers(tree))
    /\ \A j \in js :
           SubtreeOf(tree', Containers(tree')[j]) = SubtreeOf(tree, Containers(tree)[j])

\* C32, as claimed: no step of a pass changes a tree without containers, and
\* no step changes a container whose reconstructed text is empty or holds no
\* Food Log heading line.
C32_NonQualifyingUntouched ==
    [][/\ Containers(tree) = <<>> => tree' = tree
       /\ LeftUnmodified(NotQualifying(tree))]_vars

\* C32, amended: no step of a pass changes a tree without containers, and no
\* step changes a container whose reconstructed text is empty or holds no
\* Food Log heading line unless the container lies in a container that
\* qualifies or holds one.
C32_NonQualifyingApartUntouched ==
    [][/\ Containers(tree) = <<>> => tree' = tree
       /\ LeftUnmodified(NotQualifyingApart(tree))]_vars

\* C32: a pass has come to its end on a tree in which a paragraph without a
\* heading, holding a wrapper and a hint of its own, stands next to a list
\* item that qualified and was given a wrapper: the paragraph is what it was.
C32_Witness ==
    /\ pc = Idle /\ passes > 0 /\ ~raised
    /\ Len(Containers(tree)) = 3
    /\ NotQualifyingApart(tree) = {3}
    /\ SubtreeOf(tree, Containers(tree)[3]) = SubtreeOf(treeBefore, Containers(treeBefore)[3])
    /\ QuerySelectorAll(tree, Containers(tree)[3], {HintClass}) # {}
    /\ QuerySelectorAll(tree, Containers(tree)[3], {NutritionValueClass}) # {}
    /\ \E w \in (Containers(tree)[1] + 1)..SubtreeEnd(tree, Containers(tree)[1]) :
           IsWrapperNode(tree, w)

\* C33: at the end of the pass over a container, the hint nodes of two
\* annotations of the pass with the same position stand in the order of the
\* annotations: the hint of the earlier annotation comes first.
C33_HintsInAnnotationOrder ==
    AtEndOfContainer =>
        \A computed \in {annotationsOfPass} : \A hints \in {hintNodes} :
            \A m \in 1..Len(computed) : \A n \in (m + 1)..Len(computed) :
                (computed[m].position = computed[n].position
                 /\ computed[m].text # computed[n].text) =>
                    \A h \in hints : \A g \in hints :
                        (/\ textContent(tree, h) = <<" ">> \o computed[m].text
                         /\ textContent(tree, g) = <<" ">> \o computed[n].text) => h < g

\* The highlight ranges and the annotations of the whole document that lie
\* in the visible range.
RangesOfDocumentInView ==
    SelectSeq(extractMultilineHighlightRanges(doc, 0),
              LAMBDA r : vpFrom <= r.start /\ r.start < vpTo)

AnnotationsOfDocumentInView ==
    SelectSeq(IF showCalorieHints
              THEN extractInlineCalorieAnnotations(doc, 0, nutrientCache)
              ELSE <<>>,
              LAMBDA a : vpFrom <= a.position /\ a.position <= vpTo)

\* C34: the decorations the editor plugin has built for the visible range are
\* the highlight ranges and the annotations of the whole document that lie in
\* the visible range, wherever the Food Log heading line is.
C34_DecorationsIndependentOfViewport ==
    /\ hlRanges = RangesOfDocumentInView
    /\ annotations = AnnotationsOfDocumentInView

(***************************************************************************)
(* NutrientCache in directory mode: one markdown file per nutrient.        *)
(***************************************************************************)

\* Map.set and Map.delete, on functions.
MapSet(m, k, v) == [x \in (DOMAIN m) \cup {k} |-> IF x = k THEN v ELSE m[x]]

MapDelete(m, k) == [x \in (DOMAIN m) \ {k} |-> m[x]]

\* The nutrient directory is "n"; "o.md" lies outside it.
NutrientFiles == {"n/a.md", "n/b.md"}

VaultPaths == NutrientFiles \cup {"o.md"}

\* A frontmatter without a name.
NoName == ""

NutrientNames == {"apple", "pear"}

\* The frontmatter the metadata cache holds for a file: its name and its
\* calories.  The vault of this part maps each file to its frontmatter.
Frontmatters == [name : NutrientNames \cup {NoName}, calories : {100}]

\* isNutrientFile, directory mode.
isNutrientFile(path) == path \in NutrientFiles

\* The two maps of the cache, as one value.
Maps(data, names) == [data |-> data, names |-> names]

\* removeFileFromCache: a file loses its entry, and its name its mapping.
removeFileFromCache(c, filePath) ==
    IF filePath \in DOMAIN c.data
    THEN Maps(MapDelete(c.data, filePath), MapDelete(c.names, c.data[filePath].name))
    ELSE c

\* processNutrientFile, given the frontmatter the metadata cache holds.
processNutrientFile(c, path, fm) ==
    IF fm.name # NoName
    THEN LET named == IF path \in DOMAIN c.data /\ c.data[path].name # fm.name
                      THEN MapDelete(c.names, c.data[path].name)
                      ELSE c.names
         IN  Maps(MapSet(c.data, path, [name |-> fm.name, data |-> fm.calories]),
                  MapSet(named, fm.name, path))
    ELSE removeFileFromCache(c, path)

\* initialize, directory mode: both maps cleared, then processNutrientFile for
\* the files of the directory, in the order of getMarkdownFiles.
initialize(v) ==
    LET nutrientFiles == <<"n/a.md", "n/b.md">>
        loop[k \in 0..Len(nutrientFiles)] ==
            IF k = 0 THEN Maps(<<>>, <<>>)
            ELSE IF nutrientFiles[k] \notin DOMAIN v THEN loop[k - 1]
            ELSE processNutrientFile(loop[k - 1], nutrientFiles[k], v[nutrientFiles[k]])
    IN  loop[Len(nutrientFiles)]

\* getNutrientNames, as a set (the code sorts the keys).
getNutrientNames == DOMAIN nameToPathMap

TheCache == Maps(nutrientDataCache, nameToPathMap)

\* The cache becomes c and the listeners are told.
Cached(c) ==
    /\ nutrientDataCache' = c.data
    /\ nameToPathMap' = c.names
    /\ shown' = c.names

NutrientCacheInit ==
    /\ vault \in UNION {[present -> Frontmatters] : present \in SUBSET VaultPaths}
    /\ \E c \in {initialize(vault)} :
           /\ nutrientDataCache = c.data
           /\ nameToPathMap = c.names
           /\ shown = c.names
    /\ inFlight = <<>>
    /\ started = 0
    /\ lastStarted = <<>>
    /\ NoEditor
    /\ NoCalc
    /\ NoTree

\* updateCache(file, action) in directory mode.
updateCache(c, path, action, fm) ==
    IF action = "delete" THEN removeFileFromCache(c, path)
    ELSE processNutrientFile(c, path, fm)

\* vault "create": a file appears.
OnCreate(path, fm) ==
    /\ path \notin DOMAIN vault
    /\ vault' = MapSet(vault, path, fm)
    /\ IF isNutrientFile(path)
       THEN Cached(updateCache(TheCache, path, "create", fm))
       ELSE UNCHANGED <<nutrientDataCache, nameToPathMap, shown>>
    /\ UNCHANGED <<inFlight, started, lastStarted>>
    /\ UNCHANGED <<editorVars, calcVars, treeVars>>

\* vault "modify": the file is rewritten; the metadata cache holds fm for it
\* by then, the frontmatter it held before or a new one.
OnModify(path, fm) ==
    /\ path \in DOMAIN vault
    /\ vault' = MapSet(vault, path, fm)
    /\ IF isNutrientFile(path)
       THEN Cached(updateCache(TheCache, path, "modify", fm))
       ELSE UNCHANGED <<nutrientDataCache, nameToPathMap, shown>>
    /\ UNCHANGED <<inFlight, started, lastStarted>>
    /\ UNCHANGED <<editorVars, calcVars, treeVars>>

\* metadataCache "changed": the metadata cache has parsed the file anew,
\* handleMetadataChange(file).
handleMetadataChange(path, fm) ==
    /\ path \in DOMAIN vault
    /\ vault' = MapSet(vault, path, fm)
    /\ IF isNutrientFile(path)
       THEN Cached(processNutrientFile(TheCache, path, fm))
       ELSE UNCHANGED <<nutrientDataCache, nameToPathMap, shown>>
    /\ UNCHANGED <<inFlight, started, lastStarted>>
    /\ UNCHANGED <<editorVars, calcVars, treeVars>>

\* vault "delete".
OnDelete(path) ==
    /\ path \in DOMAIN vault
    /\ vault' = MapDelete(vault, path)
    /\ IF isNutrientFile(path)
       THEN Cached(updateCache(TheCache, path, "delete", vault[path]))
       ELSE UNCHANGED <<nutrientDataCache, nameToPathMap, shown>>
    /\ UNCHANGED <<inFlight, started, lastStarted>>
    /\ UNCHANGED <<editorVars, calcVars, treeVars>>

\* handleRename(file, oldPath), directory mode.
handleRename(c, path, oldPath, fm) ==
    LET cleaned == IF oldPath \in NutrientFiles THEN removeFileFromCache(c, oldPath) ELSE c
    IN  IF isNutrientFile(path) THEN processNutrientFile(cleaned, path, fm) ELSE cleaned

\* vault "rename": the file at oldPath moves to path.
OnRename(oldPath, path) ==
    /\ oldPath \in DOMAIN vault
    /\ path \notin DOMAIN vault
    /\ vault' = MapSet(MapDelete(vault, oldPath), path, vault[oldPath])
    /\ IF isNutrientFile(path) \/ oldPath \in NutrientFiles
       THEN Cached(handleRename(TheCache, path, oldPath, vault[oldPath]))
       ELSE UNCHANGED <<nutrientDataCache, nameToPathMap, shown>>
    /\ UNCHANGED <<inFlight, started, lastStarted>>
    /\ UNCHANGED <<editorVars, calcVars, treeVars>>

NutrientCacheNext ==
    \/ \E path \in VaultPaths, fm \in Frontmatters : OnCreate(path, fm)
    \/ \E path \in VaultPaths, fm \in Frontmatters : OnModify(path, fm)
    \/ \E path \in VaultPaths, fm \in Frontmatters : handleMetadataChange(path, fm)
    \/ \E path \in VaultPaths : OnDelete(path)
    \/ \E oldPath \in VaultPaths, path \in VaultPaths : OnRename(oldPath, path)

SpecCache == NutrientCacheInit /\ [][NutrientCacheNext]_vars

\* C35: every file held in nutrientDataCache has its name among the keys of
\* nameToPathMap (getNutrientNames lists it), and every entry of
\* nameToPathMap points to a path held in nutrientDataCache whose entry
\* carries that name.
C35_CacheIndexConsistent ==
    /\ \A path \in DOMAIN nutrientDataCache :
           nutrientDataCache[path].name \in getNutrientNames
    /\ \A name \in DOMAIN nameToPathMap :
           /\ nameToPathMap[name] \in DOMAIN nutrientDataCache
           /\ nutrientDataCache[nameToPathMap[name]].name = name

(***************************************************************************)
(* NutrientCache in single-file mode: one database file holds the foods.   *)
(* initialize, refresh and updateCache run processSingleFile, which        *)
(* clears the maps, awaits the read of the file and then fills the maps.   *)
(***************************************************************************)

\* Calls of processSingleFile the model lets start.
MaxStarted == 3

singleFilePath == "db.json"

\* What the database file may hold: its foods, name -> calories.
DbContents == UNION {[names -> {100, 200}] : names \in SUBSET NutrientNames}

\* `${file.path}#${nutrientName}`
FoodKey(path, name) == <<path, "#", name>>

\* The entries the loop over the foods of a content sets.
EntriesOf(foods) ==
    Maps([key \in {FoodKey(singleFilePath, name) : name \in DOMAIN foods} |->
              [name |-> key[3], data |-> foods[key[3]]]],
         [name \in DOMAIN foods |-> FoodKey(singleFilePath, name)])

\* Map.set of every entry of `entries` on m.
SetAll(m, entries) ==
    [x \in (DOMAIN m) \cup (DOMAIN entries) |->
         IF x \in DOMAIN entries THEN entries[x] ELSE m[x]]

SingleFileInit ==
    /\ vault \in DbContents
    /\ nutrientDataCache = <<>>
    /\ nameToPathMap = <<>>
    /\ inFlight = {}
    /\ started = 0
    /\ lastStarted = <<>>
    /\ shown = <<>>
    /\ NoEditor
    /\ NoCalc
    /\ NoTree

\* processSingleFile up to its await: both maps cleared, the read pending.
processSingleFile ==
    /\ started < MaxStarted
    /\ started' = started + 1
    /\ nutrientDataCache' = <<>>
    /\ nameToPathMap' = <<>>
    /\ inFlight' = inFlight \cup {[id |-> started', phase |-> "reading", foods |-> <<>>]}
    /\ UNCHANGED <<lastStarted, shown>>
    /\ UNCHANGED <<editorVars, calcVars, treeVars>>

\* refresh(), or the initialize() of onload: the file is as it was.
Refresh ==
    /\ processSingleFile
    /\ UNCHANGED vault

\* vault "modify" of the database file: updateCache(file, "modify").
OnModifyDb(foods) ==
    /\ foods # vault
    /\ vault' = foods
    /\ processSingleFile

\* The read a call awaits takes place: it sees the file as it is now.
CachedRead(call) ==
    /\ call.phase = "reading"
    /\ inFlight' = (inFlight \ {call}) \cup {[call EXCEPT !.phase = "read", !.foods = vault]}
    /\ lastStarted' = IF call.id = started THEN vault ELSE lastStarted
    /\ UNCHANGED <<vault, nutrientDataCache, nameToPathMap, started, shown>>
    /\ UNCHANGED <<editorVars, calcVars, treeVars>>

\* The call resumes after its await: the foods it read are set, and its
\* caller notifies the listeners.
Resume(call) ==
    /\ call.phase = "read"
    /\ inFlight' = inFlight \ {call}
    /\ nutrientDataCache' = SetAll(nutrientDataCache, EntriesOf(call.foods).data)
    /\ nameToPathMap' = SetAll(nameToPathMap, EntriesOf(call.foods).names)
    /\ shown' = nameToPathMap'
    /\ UNCHANGED <<vault, started, lastStarted>>
    /\ UNCHANGED <<editorVars, calcVars, treeVars>>

SingleFileNext ==
    \/ Refresh
    \/ \E foods \in DbContents : OnModifyDb(foods)
    \/ \E call \in inFlight : CachedRead(call)
    \/ \E call \in inFlight : Resume(call)

SpecSingleFile == SingleFileInit /\ [][SingleFileNext]_vars

\* C36: once every rebuild has completed, the cache holds exactly the
\* entries of the content read by the most recently started rebuild, and the
\* listeners were notified of that state.
C36_RebuildsConverge ==
    (started > 0 /\ inFlight = {}) =>
        /\ TheCache = EntriesOf(lastStarted)
        /\ shown = nameToPathMap

(***************************************************************************)
(* updateNutritionTotal as the event handlers run it: each call takes the  *)
(* active note, awaits the read of its content and then renders the total. *)
(***************************************************************************)

\* The lines an edit of the active note appends.
TotalLines ==
    { <<"[", "[", "x", "]", "]", " ", "5", "g">>,
      <<"a", " ", "7", "k", "c", "a", "l", " ", "-", "2", "f", "a", "t", " ",
        "b", " ", "1", "f", "a", "t">> }

TotalInit ==
    /\ content = <<"#", "#", " ", "F", "o", "o", "d", " ", "L", "o", "g">>
    /\ store = [f \in FileNames |->
                   IF f = <<"x">>
                   THEN Returns([k \in {"calories", "fats"} |->
                                    IF k = "calories" THEN 20000 ELSE 1000])
                   ELSE Throws("Ey")]
    /\ goals = NoGoals
    /\ calcResult = <<>>
    /\ readErrors = <<>>
    /\ inFlight = {}
    /\ started = 0
    /\ lastStarted = <<>>
    /\ vault = <<>>
    /\ nutrientDataCache = <<>>
    /\ nameToPathMap = <<>>
    /\ shown = <<>>
    /\ NoEditor
    /\ NoTree

\* updateNutritionTotal up to its await: the read of the note is pending.
updateNutritionTotal ==
    /\ started < MaxStarted
    /\ started' = started + 1
    /\ inFlight' = inFlight \cup {[id |-> started', phase |-> "reading", text |-> <<>>]}
    /\ UNCHANGED <<store, goals, calcResult, readErrors, lastStarted>>
    /\ UNCHANGED <<vault, nutrientDataCache, nameToPathMap, shown>>
    /\ UNCHANGED <<editorVars, treeVars>>

\* workspace "file-open", or onLayoutReady: the note is as it was.
OnFileOpen ==
    /\ updateNutritionTotal
    /\ UNCHANGED content

\* vault "modify": the note gained a line.
OnModifyNote(l) ==
    /\ Len(SplitLines(content)) < MaxCalcLines
    /\ content' = content \o <<NL>> \o l
    /\ updateNutritionTotal

\* The read a call awaits takes place: it sees the note as it is now.
CachedReadNote(call) ==
    /\ call.phase = "reading"
    /\ inFlight' = (inFlight \ {call}) \cup {[call EXCEPT !.phase = "read", !.text = content]}
    /\ lastStarted' = IF call.id = started THEN content ELSE lastStarted
    /\ UNCHANGED <<content, store, goals, calcResult, readErrors, started>>
    /\ UNCHANGED <<vault, nutrientDataCache, nameToPathMap, shown>>
    /\ UNCHANGED <<editorVars, treeVars>>

\* The call resumes after its await: the total of what it read replaces
\* the total on display.
Render(call) ==
    /\ call.phase = "read"
    /\ inFlight' = inFlight \ {call}
    /\ Recalculate(call.text, store, goals)
    /\ UNCHANGED <<content, store, goals, started, lastStarted>>
    /\ UNCHANGED <<vault, nutrientDataCache, nameToPathMap, shown>>
    /\ UNCHANGED <<editorVars, treeVars>>

TotalNext ==
    \/ OnFileOpen
    \/ \E l \in TotalLines : OnModifyNote(l)
    \/ \E call \in inFlight : CachedReadNote(call)
    \/ \E call \in inFlight : Render(call)

SpecTotal == TotalInit /\ [][TotalNext]_vars

\* C37: once every call of updateNutritionTotal has completed, the total on
\* display is the total of the content read by the most recently triggered
\* call.
C37_TotalNeverStale ==
    (started > 0 /\ inFlight = {}) =>
        \E r \in {calculateNutritionTotals(lastStarted, store, goals)} :
            calcResult = [ends |-> r.ends, value |-> r.value]

(***************************************************************************)
(* The section extractor of NutritionCalculator against the one of         *)
(* FoodHighlightCore, under SpecEditor.                                    *)
(***************************************************************************)

\* The headings the extractors are asked for.
SectionHeadings == {FoodLog, <<"B">>, <<"a">>, <<"c">>, <<>>}

\* The `line` fields of what FoodHighlightCore's extractor returns.
LineFields(entries) == [i \in 1..Len(entries) |-> entries[i].line]

\* C38: for every text and heading, the lines that NutritionCalculator's
\* extractLinesUnderHeading returns are the `line` fields of what
\* FoodHighlightCore's extractLinesUnderHeading returns, in the same order.
C38_ExtractorsAgree ==
    \A text \in {doc, visibleText} : \A headingText \in SectionHeadings :
        calcExtractLinesUnderHeading(text, headingText)
            = LineFields(extractLinesUnderHeading(text, headingText))

\* C38: a text of three lines: a line before the section, the Food Log
\* heading in another letter case, and one line of the section.
C38_Witness ==
    /\ Len(SplitLines(doc)) = 3
    /\ ~ TitleEqualsExactCase(trim(HeadingMatch(SplitLines(doc)[2]).title), FoodLog)
    /\ Len(extractLinesUnderHeading(doc, FoodLog)) = 1
    /\ calcExtractLinesUnderHeading(doc, FoodLog) = <<SplitLines(doc)[3]>>
    /\ HeadingMatch(SplitLines(doc)[1]).level = 0

\* The walk of wrapTextAtPosition, asked for the character at index i of the
\* text, which the node holder contributes from offset start on, finds that
\* node when it is a text node, at the offset the character has in its
\* contribution; it finds nothing when a linked reference, a tag or a line
\* break holds the character.
WrapLocates(nodes, c, text, holder, start, i) ==
    \A nodesToWrap \in {WrapScan(nodes, c, i, i + 1, c, 0, <<>>)} :
        IF nodes[holder].kind = "text"
        THEN /\ Len(nodesToWrap) = 1
             /\ nodesToWrap[1].node = holder
             /\ nodesToWrap[1].startOffset = i - start
             /\ nodesToWrap[1].endOffset = nodesToWrap[1].startOffset + 1
             /\ nodes[holder].text[nodesToWrap[1].startOffset + 1] = text[i + 1]
        ELSE nodesToWrap = <<>>

\* The walk of findInsertionNodeAtPosition, asked for the position after the
\* character at index i of the text, finds the node that holds the character.
FindLocates(nodes, c, text, holder, start, i) ==
    /\ findInsertionNodeAtPosition(nodes, c, i + 1) = holder
    /\ ContributionOf(nodes, holder)[i + 1 - start] = text[i + 1]

\* The three walks agree on the contributing node n of the container c, which
\* reconstructMarkdownText gives the offsets from start up to end.
WalksAgreeOn(nodes, c, text, n, start, end) ==
    /\ SubSeq(text, start + 1, end) = ContributionOf(nodes, n)
    /\ \A i \in start..(end - 1) :
           /\ WrapLocates(nodes, c, text, n, start, i)
           /\ FindLocates(nodes, c, text, n, start, i)

=============================================================================
